---------------------------- MODULE Spec2Model ----------------------------
(***************************************************************************)
(* Chord / DHash overlay (Patrick-McKeever/P2P-DHTs).                      *)
(*                                                                         *)
(* The ring is modelled with BinaryLen-bit identifiers instead of the      *)
(* 128-bit identifiers of the source; every operator below is translated   *)
(* from the C++ it names.  A remote procedure call is synchronous in the   *)
(* source (the caller blocks on the reply), so an operation and the        *)
(* handlers it triggers on other peers form one step of the model.         *)
(***************************************************************************)
EXTENDS Integers, Sequences, FiniteSets, TLC

(***************************************************************************)
(* Bounds of the model.                                                    *)
(***************************************************************************)
\* Number of bits of an identifier (ChordKey::BinaryLen(), 128 in the source).
BinaryLen == 6
\* Longest chain of nested remote calls that is followed before the call is
\* given up (the source has no bound: a forwarding cycle never returns).
MaxHops == 6
\* Number of Leave/Fail events of one run.
MaxChurn == 2
\* Number of Stabilize runs of a peer after the last membership change.
MaxRounds == 2
\* The same for the rings whose peers store the pairs of the clients.
MaxDataRounds == 1
\* Length of the successor lists (the constructor argument num_succs).
num_succs_ == 2
\* Largest n of the calls of GetNSuccessors that the properties look at.
MaxCount == 3
\* Leave/Fail events and Stabilize runs of the rings on which every lookup
\* of every peer is evaluated.
MaxLookupChurn == 1
MaxLookupRounds == 1
\* Number of client threads whose Create calls run at the same time.
MaxClients == 2
\* The parameters of the dispersal of DHashPeer: a block is n_ fragments, m_
\* of which rebuild it (14 and 10 in the constructor; the rings of the tests
\* are set to 3 and 2 and to 2 and 1 with SetIdaParams).  n_ is the length
\* of the successor lists, which the constructor of DHashPeer is given as
\* num_replicas, and with three peers one peer is outside of the replicas
\* of a key.
n_ == 2
m_ == 1
\* Number of keys that one pass of global maintenance walks over before it
\* is taken to walk for ever.
MaxKeyWalk == 4
\* Number of rounds of the maintenance loop of a DHashPeer after the last
\* membership change.
MaxDHashRounds == 1
\* Number of calls of std::sample in one step.
MaxSamples == 2
\* IDA::n_ and IDA::m_ of the coder that is called on its own (the source's
\* defaults are 14 and 10): m values make a segment, n fragments are made.
IdaN == 3
IdaM == 2
\* Length of the longest input of the coder.
MaxInputLen == 3
\* Bits of the keys of the tree that is called on its own, and the largest
\* key given to it: the keys 0 .. 8 are nine keys under one child of the root.
MerkleKeyLen == 7
MaxMerkleKey == 8
\* Calls on a tree after it is built.
MaxMerkleCalls == 4

(***************************************************************************)
(* Program constants.                                                      *)
(***************************************************************************)
\* MerkleTree<ValType>::num_children_
num_children_ == 8

\* IDA::p_, the prime of the field of the coder
IdaP == 257

\* DHashPeer::n_ and m_ as the constructor sets them: the number of
\* fragments of a block and the number of them that rebuild it
IdaDefaultN == 14
IdaDefaultM == 10

\* GenericKey::keys_in_ring_ = key_base ^ key_len
keys_in_ring_ == 2 ^ BinaryLen
\* Number of values of the unsigned type that holds a key (uint256_t for a
\* 128-bit ring: twice the bits of the ring).
UintMod == 2 ^ (2 * BinaryLen)

\* Identifiers of the peers (SHA-1 hashes of ip:port in the source).  As with
\* hashes, no identifier is another one plus a power of two, and none is
\* keys_in_ring_ minus a power of two: no finger of a peer starts exactly at
\* the identifier of another peer or at key 0.
PeerIds == {8, 11, 14}
\* Keys and values the clients create.
ClientKeys == {12, 40}
Values == {"v"}

(***************************************************************************)
(* key.h : GenericKey                                                      *)
(***************************************************************************)
\* operator + (const KeyType &key, T number)
KeyAdd(key, number) == ((key + number) % UintMod) % keys_in_ring_

\* operator - (const KeyType &key, T number): the difference is taken in the
\* unsigned type, so it wraps, and a zero difference yields keys_in_ring_.
KeySubNum(key, number) ==
    LET diff == (key - number) % UintMod
    IN  IF diff > 0 THEN diff ELSE keys_in_ring_ + diff

\* operator - (const KeyType &key1, const KeyType &key2): signed difference.
KeySub(key1, key2) ==
    LET diff == key1 - key2
    IN  IF diff > 0 THEN diff ELSE (keys_in_ring_ + diff) % UintMod

\* An InBetween that takes every range for one that does not pass key 0.
InBetween_NoWrap(value_, lower_bound, upper_bound, inclusive) ==
    lower_bound <= value_ /\ value_ <= upper_bound

\* GenericKey::InBetween
InBetween(value_, lower_bound, upper_bound, inclusive) ==
    IF lower_bound = upper_bound
    THEN value_ = upper_bound
    ELSE LET mod_lower_bound == lower_bound % keys_in_ring_
             mod_upper_bound == upper_bound % keys_in_ring_
             mod_value       == value_ % keys_in_ring_
         IN  IF lower_bound < upper_bound
             THEN IF inclusive
                  THEN mod_lower_bound <= mod_value /\ mod_value <= upper_bound
                  ELSE mod_lower_bound < mod_value /\ mod_value < upper_bound
             ELSE ~ (IF inclusive
                     THEN mod_upper_bound < mod_value
                          /\ mod_value < mod_lower_bound
                     ELSE mod_upper_bound <= mod_value
                          /\ mod_value <= mod_lower_bound)

\* IntToHexStr: the digits of the key in base 16, most significant first.
RECURSIVE IntToHexStr(_)
IntToHexStr(val) ==
    IF val < 16 THEN <<val>> ELSE Append(IntToHexStr(val \div 16), val % 16)

\* std::string operator < on the hexadecimal strings (order of a JSON object).
RECURSIVE StrLess(_, _)
StrLess(s, t) ==
    IF t = <<>> THEN FALSE
    ELSE IF s = <<>> THEN TRUE
    ELSE IF Head(s) # Head(t) THEN Head(s) < Head(t)
    ELSE StrLess(Tail(s), Tail(t))

(***************************************************************************)
(* remote_peer.h : RemotePeer                                              *)
(***************************************************************************)
\* The port of the peer with an identifier (test rings: 7300, 7302, ...).
Port(id) == 7300 + id

\* RemotePeer(id, min_key, ip_addr, port)
RemotePeer(id, min_key, port) == [id_ |-> id, min_key_ |-> min_key, port_ |-> port]

\* RemotePeer(const Json::Value &) of a field that is absent: every member
\* is read from a null value ("" -> key 0, port 0).
NullJsonPeer == RemotePeer(0, 0, 0)

\* std::optional<RemotePeer> without a value.
NoPeer == [id_ |-> -1, min_key_ |-> -1, port_ |-> -1]

(***************************************************************************)
(* finger_table.h : FingerTable                                            *)
(***************************************************************************)
\* FingerTable::GetNthRange (n counts from 0)
GetNthRange(starting_key_, n) ==
    LET lower_bound == (starting_key_ + 2 ^ n) % keys_in_ring_
        upper_bound == (((starting_key_ + 2 ^ (n + 1)) % keys_in_ring_) - 1) % UintMod
    IN  <<lower_bound, upper_bound>>

Finger(lower, upper, succ) ==
    [lower_bound_ |-> lower, upper_bound_ |-> upper, successor_ |-> succ]

\* FingerTable::Lookup : index of the first finger whose range holds the key,
\* 0 when there is none (the source throws "ChordKey not found").
FingerLookupIndex(table_, key) ==
    LET hits == {i \in 1..Len(table_) :
                    InBetween(key, table_[i].lower_bound_, table_[i].upper_bound_, TRUE)}
    IN  IF hits = {} THEN 0 ELSE CHOOSE i \in hits : \A j \in hits : i <= j

\* AdjustFingers with InBetween called with inclusive = false.
AdjustFingers_Exclusive(table_, new_peer) ==
    [i \in 1..Len(table_) |->
        IF InBetween(table_[i].lower_bound_, new_peer.min_key_, new_peer.id_, FALSE)
        THEN [table_[i] EXCEPT !.successor_ = new_peer]
        ELSE table_[i]]

\* FingerTable::AdjustFingers ; InBetween is called with its default
\* inclusive = true.
AdjustFingers(table_, new_peer) ==
    [i \in 1..Len(table_) |->
        IF InBetween(table_[i].lower_bound_, new_peer.min_key_, new_peer.id_, TRUE)
        THEN [table_[i] EXCEPT !.successor_ = new_peer]
        ELSE table_[i]]

\* FingerTable::ReplaceDeadPeer
ReplaceDeadPeer(table_, dead_peer, replacement) ==
    [i \in 1..Len(table_) |->
        IF table_[i].successor_.id_ = dead_peer.id_
        THEN [table_[i] EXCEPT !.successor_ = replacement]
        ELSE table_[i]]

\* FingerTable::EditNthFinger (n counts from 0)
EditNthFinger(table_, n, succ) ==
    [table_ EXCEPT ![n + 1].successor_ = succ]

(***************************************************************************)
(* remote_peer_list.cpp : RemotePeerList                                   *)
(***************************************************************************)
\* Position of the first entry at which Insert stops: <<"dup", i>> when the
\* id is already listed, <<"pos", i>> when the new peer lies between the
\* previous key and entry i, <<"none", 0>> when the loop runs to the end.
RECURSIVE InsertScan(_, _, _, _)
InsertScan(peers_, new_peer, previous_key, i) ==
    IF i > Len(peers_) THEN <<"none", 0>>
    ELSE IF new_peer.id_ = peers_[i].id_ THEN <<"dup", i>>
    ELSE IF InBetween(new_peer.id_, previous_key, peers_[i].id_, TRUE)
         THEN <<"pos", i>>
    ELSE InsertScan(peers_, new_peer, peers_[i].id_, i + 1)

InsertAt(s, i, e) == SubSeq(s, 1, i - 1) \o <<e>> \o SubSeq(s, i, Len(s))

\* RemotePeerList::Insert throws "Corrupted JSON" for a peer whose port is 0.
InsertThrows(new_peer) == new_peer.port_ = 0

\* RemotePeerList::Insert ; the result is the new list (the list is left
\* alone when Insert throws).
ListInsert(peers_, max_entries_, starting_key_, new_peer) ==
    IF InsertThrows(new_peer) THEN peers_
    ELSE IF peers_ = <<>> THEN <<new_peer>>
    ELSE LET scan == InsertScan(peers_, new_peer, starting_key_, 1)
         IN  IF scan[1] = "dup" THEN peers_
             ELSE IF scan[1] = "pos"
                  THEN LET ins == InsertAt(peers_, scan[2], new_peer)
                       IN  IF Len(ins) > max_entries_
                           THEN SubSeq(ins, 1, Len(ins) - 1)
                           ELSE ins
             ELSE IF Len(peers_) < max_entries_
                  THEN Append(peers_, new_peer)
             ELSE peers_

\* RemotePeerList::Lookup(key, succ = true) : index of the entry, 0 for nullopt.
RECURSIVE ListLookupScan(_, _, _, _)
ListLookupScan(peers_, key, previous_id, i) ==
    IF i > Len(peers_) THEN 0
    ELSE IF InBetween(key, previous_id, peers_[i].id_, TRUE) THEN i
    ELSE ListLookupScan(peers_, key, peers_[i].id_, i + 1)

ListLookup(peers_, starting_key_, key) ==
    ListLookupScan(peers_, key, starting_key_, 1)

\* RemotePeerList::Delete(const ChordKey &) : erases the first entry with the id.
ListDelete(peers_, id_to_delete) ==
    LET hits == {i \in 1..Len(peers_) : peers_[i].id_ = id_to_delete}
    IN  IF hits = {} THEN peers_
        ELSE LET i == CHOOSE h \in hits : \A j \in hits : h <= j
             IN  SubSeq(peers_, 1, i - 1) \o SubSeq(peers_, i + 1, Len(peers_))

(***************************************************************************)
(* merkle_tree.h / database.h : the key/value store of a peer.  With       *)
(* keys_in_ring_ / num_children_ <= num_children_ keys below every child   *)
(* of the root, no leaf is ever split: the tree is the root and its        *)
(* num_children_ leaves, and a database is the function from the stored    *)
(* keys to their values.                                                   *)
(***************************************************************************)
\* MerkleTree::ChildNum at the root (depth 0, min_key_ = 0, max_key_ = keys_in_ring_)
ChildNum(key) ==
    IF key >= keys_in_ring_ THEN num_children_ - 1
    ELSE (key \div (2 ^ (BinaryLen - 3))) % num_children_

\* Bounds of the i-th child made by MerkleTree::CreateChildren at the root.
ChildMinKey(i) == i * (keys_in_ring_ \div num_children_)
ChildMaxKey(i) == (i + 1) * (keys_in_ring_ \div num_children_)

\* MerkleTree::ReadRange on a leaf: the keys of the leaf that are in between.
LeafReadRange(db, i, lower_bound, upper_bound) ==
    {k \in DOMAIN db : ChildNum(k) = i /\ InBetween(k, lower_bound, upper_bound, TRUE)}

\* MerkleTree::ReadRange on the root; the result is the set of keys read.
RECURSIVE ReadRange(_, _, _)
ReadRange(db, lower_bound, upper_bound) ==
    LET lb_index == ChildNum(lower_bound)
        ub_index == ChildNum(upper_bound)
    IN  IF lb_index < ub_index
        THEN UNION {LET lower == IF lower_bound < ChildMinKey(i)
                                 THEN ChildMinKey(i) ELSE lower_bound
                        upper == IF upper_bound > ChildMaxKey(i)
                                 THEN ChildMaxKey(i) ELSE upper_bound
                    IN  LeafReadRange(db, i, lower, upper) : i \in lb_index..ub_index}
        ELSE IF lb_index > ub_index
        THEN ReadRange(db, 0, upper_bound)
             \cup ReadRange(db, lower_bound, keys_in_ring_ - 1)
        ELSE LeafReadRange(db, lb_index, lower_bound, upper_bound)

\* Removal of a set of keys (GenericDB::Delete of each of them).
DbDelete(db, keys) == [k \in (DOMAIN db) \ keys |-> db[k]]

\* GenericDB::Insert of a key that is not stored.
DbInsert(db, key, val) == [k \in (DOMAIN db) \cup {key} |-> IF k = key THEN val ELSE db[k]]

EmptyDb == [k \in {} |-> "v"]

(***************************************************************************)
(* The world: the fields of every peer object, as functions of the peer,   *)
(* and the record of what the handlers of the current step did.            *)
(*   type_        : "ChordPeer" or "DHashPeer" (the class of the peers)    *)
(*   server_      : the peer's server accepts connections                  *)
(*   maintenance  : StartMaintenance was called and the loop was not       *)
(*                  stopped (continue_stabilize_ / continue_maintenance_)  *)
(*   min_key_, predecessor_, finger_table_, successors_, db_ : the members *)
(*   notified     : what the runs of NotifyHandler of this step did        *)
(***************************************************************************)
\* Result of a call: ok = FALSE is an exception leaving the call.
Ok(w, v) == [ok |-> TRUE, w |-> w, v |-> v]
Throw(w) == [ok |-> FALSE, w |-> w, v |-> NoPeer]

\* The process of peer p ends (an uncaught exception, a read of memory that
\* is not there): its server and its maintenance loop are gone.
Crash(w, p) == [w EXCEPT !.server_[p] = FALSE, !.maintenance[p] = FALSE]

\* The peer a descriptor's ip:port addresses.
PeerOf(rp) == rp.port_ - 7300

\* RemotePeer::IsAlive -> Client::IsAlive : a connection to ip:port succeeds.
IsAlive(w, rp) == PeerOf(rp) \in PeerIds /\ w.server_[PeerOf(rp)]

\* AbstractChordPeer::ToRemotePeer
ToRemotePeer(w, p) == RemotePeer(p, w.min_key_[p], Port(p))

\* AbstractChordPeer::StoredLocally
StoredLocally(w, p, key) == InBetween(key, w.min_key_[p], p, TRUE)

\* RemotePeerList::LookupLiving : the entry found by Lookup when it is alive;
\* otherwise the loop "for(i = succ_ind; i % size < succ_ind; ++i)" , whose
\* condition is false at once.  NoPeer stands for nullopt.
LookupLiving(w, peers_, starting_key_, key) ==
    LET i == ListLookup(peers_, starting_key_, key)
    IN  IF i # 0 /\ IsAlive(w, peers_[i]) THEN peers_[i] ELSE NoPeer

\* The call of an operation of a peer object, by its name.
RECURSIVE Call(_, _)

(***************************************************************************)
(* Lookups: GetSuccessor, GetPredecessor and the request forwarding.  They *)
(* read the tables and change nothing.  hops is the number of nested       *)
(* remote calls still followed.                                            *)
(***************************************************************************)

\* RemotePeer::SendRequest of GET_SUCC / GET_PRED : the peer must be alive,
\* and its handler (GetSuccHandler, GetPredHandler) must not throw.
SendLookup(w, target, key, command, hops) ==
    IF ~ IsAlive(w, target) \/ hops = 0 THEN Throw(w)
    ELSE IF command = "GET_SUCC"
         THEN Call("GetSuccessor", <<w, PeerOf(target), key, hops - 1>>)
         ELSE Call("GetPredecessor", <<w, PeerOf(target), key, hops - 1>>)

\* ChordPeer::ForwardRequest and DHashPeer::ForwardRequest
ForwardRequest(w, p, key, command, hops) ==
    LET table_ == w.finger_table_[p]
        n      == FingerLookupIndex(table_, key)
        pred   == w.predecessor_[p]
        list   == w.successors_[p]
    IN  IF n = 0 THEN Throw(w)
        ELSE LET finger_succ == table_[n].successor_
             IN  IF finger_succ.id_ = p /\ pred = NoPeer THEN Throw(w)
                 ELSE IF finger_succ.id_ = p /\ IsAlive(w, pred)
                 THEN Call("SendLookup", <<w, pred, key, command, hops>>)
                 ELSE IF ~ IsAlive(w, finger_succ)
                 THEN IF w.type_ = "ChordPeer"
                      THEN LET i == ListLookup(list, p, key)
                           IN  IF i # 0 /\ IsAlive(w, list[i])
                               THEN Call("SendLookup", <<w, list[i], key, command, hops>>)
                               ELSE Throw(w)
                      ELSE LET living == LookupLiving(w, list, p, key)
                           IN  IF living # NoPeer
                               THEN Call("SendLookup", <<w, living, key, command, hops>>)
                               \* GetNthEntry(0) of an empty list reads through
                               \* the null begin() of the vector.
                               ELSE IF list = <<>> THEN Throw(Crash(w, p))
                               ELSE IF IsAlive(w, list[1])
                               THEN Call("SendLookup", <<w, list[1], key, command, hops>>)
                               ELSE Throw(w)
                 ELSE Call("SendLookup", <<w, finger_succ, key, command, hops>>)

\* GetSuccessor without the test of StoredLocally.
GetSuccessor_AlwaysForwards(w, p, key, hops) ==
    Call("ForwardRequest", <<w, p, key, "GET_SUCC", hops>>)

\* AbstractChordPeer::GetSuccessor
GetSuccessor(w, p, key, hops) ==
    IF StoredLocally(w, p, key) THEN Ok(w, ToRemotePeer(w, p))
    ELSE Call("ForwardRequest", <<w, p, key, "GET_SUCC", hops>>)

\* RemotePeer::GetPred : GET_PRED of the peer's own id_, sent to the peer.
GetPred(w, rp, hops) == Call("SendLookup", <<w, rp, rp.id_, "GET_PRED", hops>>)

\* AbstractChordPeer::GetPredecessor
GetPredecessor(w, p, key, hops) ==
    IF w.predecessor_[p] = NoPeer THEN Ok(w, ToRemotePeer(w, p))
    ELSE IF StoredLocally(w, p, key) THEN Ok(w, w.predecessor_[p])
    ELSE LET list == w.successors_[p]
             i    == ListLookup(list, p, key)
             pred_of_succ == Call("GetPred", <<w, list[i], hops>>)
         IN  IF i # 0 /\ ~ pred_of_succ.ok THEN Throw(pred_of_succ.w)
             ELSE IF i # 0 /\ InBetween(key, pred_of_succ.v.id_, list[i].id_, TRUE)
             THEN Ok(w, pred_of_succ.v)
             ELSE Call("ForwardRequest", <<w, p, key, "GET_PRED", hops>>)

\* The loop of GetNSuccessors without the test already_in_list.
GetNSuccLoop_KeepsRepeats(w, p, previous_peer_id, n, successors_list, hops) ==
    IF n = 0 THEN Ok(w, successors_list)
    ELSE LET ith_succ == Call("GetSuccessor", <<w, p, KeyAdd(previous_peer_id, 1), hops>>)
         IN  IF ~ ith_succ.ok THEN Throw(ith_succ.w)
             ELSE Call("GetNSuccLoop", <<w, p, ith_succ.v.id_, n - 1,
                                         Append(successors_list, ith_succ.v), hops>>)

\* AbstractChordPeer::GetNSuccessors : the loop from its i-th round on.
GetNSuccLoop(w, p, previous_peer_id, n, successors_list, hops) ==
    IF n = 0 THEN Ok(w, successors_list)
    ELSE LET ith_succ == Call("GetSuccessor", <<w, p, KeyAdd(previous_peer_id, 1), hops>>)
         IN  IF ~ ith_succ.ok THEN Throw(ith_succ.w)
             ELSE IF \E j \in 1..Len(successors_list) :
                         successors_list[j].id_ = ith_succ.v.id_
             THEN Ok(w, successors_list)
             ELSE Call("GetNSuccLoop", <<w, p, ith_succ.v.id_, n - 1,
                               Append(successors_list, ith_succ.v), hops>>)

GetNSuccessors(w, p, key, n, hops) ==
    Call("GetNSuccLoop", <<w, p, KeySubNum(key, 1), n, <<>>, hops>>)

\* AbstractChordPeer::GetNPredecessors : the loop from its i-th round on.
GetNPredLoop(w, p, key, previous_peer_id, i, n, pred_list, hops) ==
    IF i >= n THEN Ok(w, pred_list)
    ELSE LET ith == Call("GetPredecessor", <<w, p, KeySubNum(previous_peer_id, 1), hops>>)
         IN  IF ~ ith.ok THEN Throw(ith.w)
             ELSE IF previous_peer_id = key /\ i # 0
             THEN Ok(w, Append(pred_list, ith.v))
             ELSE Call("GetNPredLoop", <<w, p, key, ith.v.id_, i + 1, n,
                               Append(pred_list, ith.v), hops>>)

GetNPredecessors(w, p, key, n, hops) ==
    Call("GetNPredLoop", <<w, p, key, key, 0, n, <<>>, hops>>)

(***************************************************************************)
(* Handlers and operations that change the tables.                         *)
(***************************************************************************)
EmptyKv == [k \in {} |-> "v"]

\* Order of the keys of a JSON object: the order of their hexadecimal strings.
JsonLess(k1, k2) == StrLess(IntToHexStr(k1), IntToHexStr(k2))

\* ChordPeer::AbsorbKeys inserts the pairs in the order of the JSON object;
\* MerkleTree::Insert throws "Key already exists" at the first key that is
\* stored already.  DHashPeer::AbsorbKeys is empty.
AbsorbKeys(w, p, kv_pairs) ==
    IF w.type_ = "DHashPeer" THEN Ok(w, EmptyKv)
    ELSE LET db   == w.db_[p]
             dups == (DOMAIN kv_pairs) \cap (DOMAIN db)
             first == CHOOSE k \in dups : \A j \in dups : j = k \/ JsonLess(k, j)
             done == IF dups = {} THEN DOMAIN kv_pairs
                     ELSE {k \in DOMAIN kv_pairs : JsonLess(k, first)}
             new_db == [k \in (DOMAIN db) \cup done |->
                           IF k \in DOMAIN db THEN db[k] ELSE kv_pairs[k]]
             w2 == [w EXCEPT !.db_[p] = new_db]
         IN  IF dups = {} THEN Ok(w2, EmptyKv) ELSE Throw(w2)

\* ChordPeer::KeysAsJson (every entry of the database) and
\* DHashPeer::KeysAsJson (a null value).
KeysAsJson(w, p) == IF w.type_ = "DHashPeer" THEN EmptyKv ELSE w.db_[p]

\* One record per run of NotifyHandler that made the sender the predecessor.
NotifyEvent(w0, w1, p, new_peer, branch, resp, returned, rect_of, rect_started) ==
    [at |-> p, from |-> new_peer, branch |-> branch,
     old_pred |-> w0.predecessor_[p],
     old_min |-> w0.min_key_[p], old_keys |-> DOMAIN w0.db_[p],
     resp |-> DOMAIN resp, returned |-> returned,
     pred_ret |-> w1.predecessor_[p], min_ret |-> w1.min_key_[p],
     keys_ret |-> DOMAIN w1.db_[p],
     rect_of |-> rect_of, rect_started |-> rect_started]

LogNotify(w0, w1, p, new_peer, branch, resp, returned, rect_of, rect_started) ==
    [w1 EXCEPT !.notified = Append(@,
        NotifyEvent(w0, w1, p, new_peer, branch, resp, returned, rect_of, rect_started))]


\* AbstractChordPeer::PopulateFingerTable : the loop from finger i on.
PFTLoop(w, p, i, initialize, hops) ==
    IF i >= BinaryLen THEN Ok(w, EmptyKv)
    ELSE LET entry_range == GetNthRange(p, i)
             table_ == w.finger_table_[p]
         IN  IF initialize
             THEN IF StoredLocally(w, p, entry_range[1])
                  THEN Call("PFTLoop", <<[w EXCEPT !.finger_table_[p] = Append(table_,
                                   Finger(entry_range[1], entry_range[2], ToRemotePeer(w, p)))],
                               p, i + 1, initialize, hops>>)
                  ELSE IF (i = 0 /\ w.predecessor_[p] = NoPeer) \/ (i > 0 /\ Len(table_) < i)
                  THEN Throw(w)
                  ELSE LET peer_to_query == IF i = 0 THEN w.predecessor_[p]
                                            ELSE table_[i].successor_
                           succ_resp == Call("SendLookup", <<w, peer_to_query, entry_range[1],
                                                   "GET_SUCC", hops>>)
                       IN  IF ~ succ_resp.ok THEN Throw(succ_resp.w)
                           ELSE Call("PFTLoop", <<[w EXCEPT !.finger_table_[p] = Append(table_,
                                            Finger(entry_range[1], entry_range[2], succ_resp.v))],
                                        p, i + 1, initialize, hops>>)
             ELSE IF i = 0
             THEN LET succ == Call("GetSuccessor", <<w, p, entry_range[1], hops>>)
                  IN  IF ~ succ.ok THEN Throw(succ.w)
                      ELSE IF Len(table_) < 1 THEN Throw(w)
                      ELSE Call("PFTLoop", <<[w EXCEPT !.finger_table_[p] = EditNthFinger(table_, 0, succ.v)],
                                   p, i + 1, initialize, hops>>)
             ELSE IF Len(table_) < i THEN Throw(w)
             ELSE LET succ_resp == Call("SendLookup", <<w, table_[i].successor_, entry_range[1],
                                              "GET_SUCC", hops>>)
                  IN  IF ~ succ_resp.ok THEN Throw(succ_resp.w)
                      ELSE IF Len(table_) < i + 1 THEN Throw(w)
                      ELSE Call("PFTLoop", <<[w EXCEPT !.finger_table_[p] =
                                       EditNthFinger(table_, i, succ_resp.v)],
                                   p, i + 1, initialize, hops>>)

PopulateFingerTable(w, p, initialize, hops) == Call("PFTLoop", <<w, p, 0, initialize, hops>>)

\* AbstractChordPeer::Notify : the NOTIFY request and the absorption of the
\* keys of the reply.
Notify(w, p, peer_to_notify, hops) ==
    IF ~ IsAlive(w, peer_to_notify) \/ hops = 0 THEN Throw(w)
    ELSE LET notify_resp == Call("NotifyHandler", <<w, PeerOf(peer_to_notify),
                                          ToRemotePeer(w, p), hops - 1>>)
         IN  IF ~ notify_resp.ok THEN Throw(notify_resp.w)
             ELSE AbsorbKeys(notify_resp.w, p, notify_resp.v)

\* AbstractChordPeer::RectifyHandler
RectifyHandler(w, q, failed_node, originator, hops) ==
    IF originator.id_ = q THEN Ok(w, EmptyKv)
    ELSE LET w1 == [w EXCEPT !.successors_[q] = ListDelete(@, failed_node.id_),
                             !.finger_table_[q] = ReplaceDeadPeer(@, failed_node, originator)]
         IN  Call("Notify", <<w1, q, originator, hops>>)

\* AbstractChordPeer::Rectify : the loop from i on; former_peer is NoPeer
\* while the optional has no value.
RectifyLoop(w, p, failed_peer, i, former_peer, hops) ==
    IF i > BinaryLen THEN Ok(w, EmptyKv)
    ELSE LET pr == Call("GetPredecessor", <<w, p, KeySub(failed_peer.id_, 2 ^ (i - 1)), hops>>)
         IN  IF ~ pr.ok THEN Throw(pr.w)
             ELSE IF former_peer = pr.v
             THEN Call("RectifyLoop", <<w, p, failed_peer, i + 1, former_peer, hops>>)
             ELSE IF pr.v.id_ = p THEN Ok(w, EmptyKv)
             ELSE IF IsAlive(w, pr.v)
             THEN IF hops = 0 THEN Throw(w)
                  ELSE LET r == Call("RectifyHandler", <<w, PeerOf(pr.v), failed_peer,
                                               ToRemotePeer(w, p), hops - 1>>)
                       IN  IF ~ r.ok THEN Throw(r.w)
                           ELSE Call("RectifyLoop", <<r.w, p, failed_peer, i + 1, pr.v, hops>>)
             ELSE Call("RectifyLoop", <<w, p, failed_peer, i + 1, pr.v, hops>>)

Rectify(w, p, failed_peer, hops) ==
    IF IsAlive(w, failed_peer) THEN Ok(w, EmptyKv)
    ELSE Call("RectifyLoop", <<w, p, failed_peer, 1, NoPeer, hops>>)

\* The peer that HandlePredFailure hands to Rectify: ChordPeer passes
\* old_pred, DHashPeer passes predecessor_.Get().
RectifyArgument(w, p, old_pred) ==
    IF w.type_ = "ChordPeer" THEN old_pred ELSE w.predecessor_[p]

\* ChordPeer::HandlePredFailure and DHashPeer::HandlePredFailure
HandlePredFailure(w, p, old_pred, hops) ==
    LET w1 == [w EXCEPT !.finger_table_[p] = AdjustFingers(@, ToRemotePeer(w, p))]
        failed == RectifyArgument(w1, p, old_pred)
    IN  IF failed = NoPeer THEN Throw(w1)
        ELSE Call("Rectify", <<w1, p, failed, hops>>)

\* HandleNotifyFromPred without the update of min_key_.
HandleNotifyFromPred_KeepsMinKey(w, p, new_pred, hops) ==
    LET db == w.db_[p]
        keys_to_transfer == IF w.type_ = "ChordPeer"
                            THEN ReadRange(db, w.min_key_[p], new_pred.id_)
                            ELSE {}
        w1 == [w EXCEPT !.db_[p] = DbDelete(db, keys_to_transfer),
                        !.finger_table_[p] = AdjustFingers(@, new_pred),
                        !.predecessor_[p] = new_pred]
    IN  Ok(w1, [k \in keys_to_transfer |-> db[k]])

\* ChordPeer::HandleNotifyFromPred : the keys read by ReadRange are put in
\* the reply and deleted.  DHashPeer::HandleNotifyFromPred moves no key and
\* fills an empty successor list.
HandleNotifyFromPred(w, p, new_pred, hops) ==
    LET db == w.db_[p]
        keys_to_transfer == IF w.type_ = "ChordPeer"
                            THEN ReadRange(db, w.min_key_[p], new_pred.id_)
                            ELSE {}
        data_to_transfer == [k \in keys_to_transfer |-> db[k]]
        w1 == [w EXCEPT !.db_[p] = DbDelete(db, keys_to_transfer),
                        !.finger_table_[p] = AdjustFingers(@, new_pred),
                        !.predecessor_[p] = new_pred,
                        !.min_key_[p] = KeyAdd(new_pred.id_, 1)]
    IN  IF w.type_ = "ChordPeer" \/ w1.successors_[p] # <<>>
        THEN Ok(w1, data_to_transfer)
        ELSE LET succs == Call("GetNSuccessors", <<w1, p, KeyAdd(p, 1), num_succs_, hops>>)
             IN  IF ~ succs.ok THEN Throw(succs.w)
                 ELSE Ok([w1 EXCEPT !.successors_[p] = succs.v], data_to_transfer)

\* AbstractChordPeer::NotifyHandler
NotifyHandler(w, p, new_peer, hops) ==
    LET pred == w.predecessor_[p]
    IN  IF pred # NoPeer /\ ~ IsAlive(w, pred)
        THEN LET h == Call("HandleNotifyFromPred", <<w, p, new_peer, hops>>)
             IN  IF ~ h.ok
                 THEN Throw(LogNotify(w, h.w, p, new_peer, "dead_pred", EmptyKv,
                                      FALSE, NoPeer, FALSE))
                 ELSE LET f == Call("HandlePredFailure", <<h.w, p, pred, hops>>)
                          arg == RectifyArgument(h.w, p, pred)
                          w2 == LogNotify(w, f.w, p, new_peer, "dead_pred", EmptyKv,
                                          f.ok, arg, ~ IsAlive(h.w, arg))
                      \* the reply of this branch is the empty notify_resp
                      IN  IF f.ok THEN Ok(w2, EmptyKv) ELSE Throw(w2)
        ELSE LET ins == ListInsert(w.successors_[p], num_succs_, p, new_peer)
                 w1 == [w EXCEPT !.finger_table_[p] = AdjustFingers(@, new_peer)]
             IN  IF InsertThrows(new_peer) THEN Throw(w1)
                 ELSE LET w2 == [w1 EXCEPT !.successors_[p] = ins]
                          peer_is_pred == pred = NoPeer
                                          \/ InBetween(new_peer.id_, pred.id_, p, FALSE)
                      IN  IF peer_is_pred
                          THEN LET h == Call("HandleNotifyFromPred", <<w2, p, new_peer, hops>>)
                               IN  IF h.ok
                                   THEN Ok(LogNotify(w, h.w, p, new_peer, "pred", h.v,
                                                     TRUE, NoPeer, FALSE), h.v)
                                   ELSE Throw(LogNotify(w, h.w, p, new_peer, "pred",
                                                        EmptyKv, FALSE, NoPeer, FALSE))
                          ELSE IF w2.finger_table_[p] = <<>>
                          THEN LET f == Call("PopulateFingerTable", <<w2, p, TRUE, hops>>)
                               IN  IF f.ok THEN Ok(f.w, EmptyKv) ELSE Throw(f.w)
                          ELSE Ok(w2, EmptyKv)

\* AbstractChordPeer::FixOtherFingers : the loop from i on.
FixLoop(w, p, starting_key, i, former_peer, hops) ==
    IF i > BinaryLen THEN Ok(w, EmptyKv)
    ELSE LET pr == Call("GetPredecessor", <<w, p, KeySub(starting_key, 2 ^ (i - 1)), hops>>)
         IN  IF ~ pr.ok THEN Throw(pr.w)
             ELSE IF former_peer = pr.v
             THEN Call("FixLoop", <<w, p, starting_key, i + 1, former_peer, hops>>)
             ELSE IF pr.v.id_ = p THEN Ok(w, EmptyKv)
             ELSE IF IsAlive(w, pr.v)
             THEN LET r == Call("Notify", <<w, p, pr.v, hops>>)
                  IN  IF ~ r.ok THEN Throw(r.w)
                      ELSE Call("FixLoop", <<r.w, p, starting_key, i + 1, pr.v, hops>>)
             ELSE Call("FixLoop", <<w, p, starting_key, i + 1, pr.v, hops>>)

FixOtherFingers(w, p, starting_key, hops) ==
    Call("FixLoop", <<w, p, starting_key, 1, NoPeer, hops>>)

(***************************************************************************)
(* Join and Leave.                                                         *)
(***************************************************************************)
\* AbstractChordPeer::JoinHandler ; the value is the PREDECESSOR of the reply.
JoinHandler(w, g, new_peer, hops) ==
    LET new_peer_pred == Call("GetPredecessor", <<w, g, new_peer.id_, hops>>)
    IN  IF ~ new_peer_pred.ok THEN Throw(new_peer_pred.w)
        ELSE LET ins == ListInsert(w.successors_[g], num_succs_, g, new_peer)
                 w1  == [w EXCEPT !.finger_table_[g] = AdjustFingers(@, new_peer)]
             IN  IF InsertThrows(new_peer) THEN Throw(w1)
                 ELSE Ok([w1 EXCEPT !.successors_[g] = ins], new_peer_pred.v)

\* AbstractChordPeer::Join.  The JOIN request is sent with
\* Client::MakeRequest, which does not look at SUCCESS: when the handler
\* threw, PREDECESSOR is absent from the reply.  num_succs_ > 10 does not
\* hold for the rings of the model.
Join(w, p, gateway, hops) ==
    IF ~ IsAlive(w, gateway) THEN Throw(w)
    ELSE LET join_resp == Call("JoinHandler", <<w, PeerOf(gateway), ToRemotePeer(w, p), hops - 1>>)
             pred == IF join_resp.ok THEN join_resp.v ELSE NullJsonPeer
             w1 == [join_resp.w EXCEPT !.predecessor_[p] = pred,
                                       !.min_key_[p] = KeyAdd(pred.id_, 1)]
             pf == Call("PopulateFingerTable", <<w1, p, TRUE, hops>>)
         IN  IF ~ pf.ok THEN Throw(pf.w)
             ELSE LET succ == pf.w.finger_table_[p][1].successor_
                      nt == Call("Notify", <<pf.w, p, succ, hops>>)
                  IN  IF ~ nt.ok THEN Throw(nt.w)
                      ELSE LET fx == Call("FixOtherFingers", <<nt.w, p, p, hops>>)
                           IN  IF ~ fx.ok THEN Throw(fx.w)
                               ELSE Ok([fx.w EXCEPT !.maintenance[p] = TRUE], NoPeer)

\* AbstractChordPeer::LeaveHandler, its last two statements: new_succ is
\* built from request["NEW_SUCC"], a null value when the field is absent,
\* and handed to AdjustFingers.
LeaveAdjustFingers(table_, request) ==
    LET new_succ == IF "NEW_SUCC" \in DOMAIN request
                    THEN request.NEW_SUCC ELSE NullJsonPeer
    IN  AdjustFingers(table_, new_succ)

\* AbstractChordPeer::LeaveHandler ; request is the LEAVE message.
LeaveHandler(w, q, request, hops) ==
    IF w.predecessor_[q] = NoPeer THEN Throw(w)
    ELSE LET leaving_id == request.LEAVING_ID
             is_pred == leaving_id = w.predecessor_[q].id_
             w1 == [w EXCEPT !.predecessor_[q] = request.NEW_PRED,
                             !.min_key_[q] = request.NEW_MIN]
             fx == Call("FixOtherFingers", <<w1, q, leaving_id, hops>>)
             ab == AbsorbKeys(fx.w, q, request.KEYS_TO_ABSORB)
             r1 == IF ~ is_pred THEN Ok(w, NoPeer)
                   ELSE IF ~ fx.ok THEN Throw(fx.w)
                   ELSE ab
         IN  IF ~ r1.ok THEN Throw(r1.w)
             ELSE LET w2 == [r1.w EXCEPT !.successors_[q] = ListDelete(@, leaving_id)]
                      succs == Call("GetNSuccessors", <<w2, q, KeyAdd(q, 1), num_succs_, hops>>)
                      r2 == IF w2.successors_[q] # <<>> THEN Ok(w2, NoPeer)
                            ELSE IF ~ succs.ok THEN Throw(succs.w)
                            ELSE Ok([w2 EXCEPT !.successors_[q] = succs.v], NoPeer)
                  IN  IF ~ r2.ok THEN Throw(r2.w)
                      ELSE Ok([r2.w EXCEPT !.finger_table_[q] =
                                  LeaveAdjustFingers(@, request)], NoPeer)

\* The LEAVE request to one peer (RemotePeer::SendRequest).
SendLeave(w, target, request, hops) ==
    IF ~ IsAlive(w, target) \/ hops = 0 THEN Throw(w)
    ELSE Call("LeaveHandler", <<w, PeerOf(target), request, hops - 1>>)

\* The loop of Leave over the peers given by GetNPredecessors.
LeaveLoop(w, preds, i, request, hops) ==
    IF i > Len(preds) THEN Ok(w, NoPeer)
    ELSE LET r == Call("SendLeave", <<w, preds[i], request, hops>>)
         IN  IF ~ r.ok THEN Throw(r.w)
             ELSE Call("LeaveLoop", <<r.w, preds, i + 1, request, hops>>)

\* ChordPeer::Fail / DHashPeer::Fail
Fail(w, p) == [w EXCEPT !.server_[p] = FALSE, !.maintenance[p] = FALSE]

\* AbstractChordPeer::Leave
Leave(w, p, hops) ==
    IF w.predecessor_[p] = NoPeer THEN Throw(w)
    ELSE LET request == [LEAVING_ID |-> p, NEW_PRED |-> w.predecessor_[p],
                         NEW_MIN |-> w.min_key_[p],
                         KEYS_TO_ABSORB |-> KeysAsJson(w, p)]
             preds == Call("GetNPredecessors", <<w, p, p, num_succs_, hops>>)
         IN  IF ~ preds.ok THEN Throw(preds.w)
             ELSE LET lp == Call("LeaveLoop", <<w, preds.v, 1, request, hops>>)
                  IN  IF ~ lp.ok THEN Throw(lp.w)
                      ELSE IF lp.w.finger_table_[p] = <<>> THEN Throw(lp.w)
                      ELSE LET succ == lp.w.finger_table_[p][1].successor_
                               sr == IF IsAlive(lp.w, succ)
                                     THEN Call("SendLeave", <<lp.w, succ, request, hops>>)
                                     ELSE Ok(lp.w, NoPeer)
                           IN  IF ~ sr.ok THEN Throw(sr.w)
                               ELSE Ok(Fail(sr.w, p), NoPeer)

(***************************************************************************)
(* Stabilize.                                                              *)
(***************************************************************************)
\* The maintenance thread of p never comes back from the call it is in.
Hang(w, p) == [w EXCEPT !.maintenance[p] = FALSE]

\* AbstractChordPeer::UpdateSuccList : the while(true) loop for one entry of
\* the old list; steps is the number of rounds still followed.
PredWalk(w, p, last_entry, previous_succ_id, steps, hops) ==
    IF steps = 0 THEN Throw(Hang(w, p))
    ELSE LET pred_of_last_entry == Call("GetPred", <<w, last_entry, hops>>)
         IN  IF ~ pred_of_last_entry.ok THEN Ok(pred_of_last_entry.w, NoPeer)
             ELSE LET pe == pred_of_last_entry.v
                  IN  IF pe.id_ = previous_succ_id \/ pe.id_ = p THEN Ok(w, NoPeer)
                      ELSE LET ins == IF IsAlive(w, pe)
                                      THEN ListInsert(w.successors_[p], num_succs_, p, pe)
                                      ELSE w.successors_[p]
                           IN  IF IsAlive(w, pe) /\ InsertThrows(pe) THEN Throw(w)
                               ELSE Call("PredWalk", <<[w EXCEPT !.successors_[p] = ins], p, pe,
                                             previous_succ_id, steps - 1, hops>>)

\* The for loop of UpdateSuccList over the old list.
SuccWalk(w, p, old_peer_list, i, previous_succ_id, hops) ==
    IF i > Len(old_peer_list) THEN Ok(w, NoPeer)
    ELSE LET r == Call("PredWalk", <<w, p, old_peer_list[i], previous_succ_id, MaxHops, hops>>)
         IN  IF ~ r.ok THEN Throw(r.w)
             ELSE Call("SuccWalk", <<r.w, p, old_peer_list, i + 1, old_peer_list[i].id_, hops>>)

\* Insertion of the peers of a vector that are not this peer.
RECURSIVE InsertOthers(_, _, _, _)
InsertOthers(peers_, p, succs, i) ==
    IF i > Len(succs) THEN peers_
    ELSE IF succs[i].id_ = p THEN InsertOthers(peers_, p, succs, i + 1)
    ELSE InsertOthers(ListInsert(peers_, num_succs_, p, succs[i]), p, succs, i + 1)

\* AbstractChordPeer::UpdateSuccList
UpdateSuccList(w, p, hops) ==
    LET walk == Call("SuccWalk", <<w, p, w.successors_[p], 1, p, hops>>)
    IN  IF ~ walk.ok THEN Throw(walk.w)
        ELSE LET list == walk.w.successors_[p]
                 size == Len(list)
             IN  IF size >= num_succs_ THEN Ok(walk.w, NoPeer)
                 ELSE LET succs == Call("GetNSuccessors", <<walk.w, p, KeyAdd(list[size].id_, 1),
                                                  num_succs_ - size, hops>>)
                      IN  IF ~ succs.ok THEN Throw(succs.w)
                          ELSE LET ins == InsertOthers(list, p, succs.v, 1)
                                   bad == {i \in 1..Len(succs.v) :
                                              succs.v[i].id_ # p /\ InsertThrows(succs.v[i])}
                                   first == CHOOSE i \in bad : \A j \in bad : i <= j
                               IN  IF bad # {}
                                   THEN Throw([walk.w EXCEPT !.successors_[p] =
                                           InsertOthers(list, p, SubSeq(succs.v, 1, first - 1), 1)])
                                   ELSE Ok([walk.w EXCEPT !.successors_[p] = ins], NoPeer)

\* The while loop of Stabilize: dead entries are deleted from the head of
\* the list.  The result is the remaining list, <<>> when every entry was dead.
RECURSIVE DropDeadHead(_, _)
DropDeadHead(w, peers_) ==
    IF peers_ = <<>> THEN <<>>
    ELSE IF IsAlive(w, peers_[1]) THEN peers_
    ELSE DropDeadHead(w, ListDelete(peers_, peers_[1].id_))

\* AbstractChordPeer::Stabilize.  ub is what the read of GetNthEntry(0) of
\* an emptied list does: "crash" ends the process, "stale" reads the dead
\* entry again and the while loop never ends.
Stabilize(w, p, ub, hops) ==
    IF w.predecessor_[p] = NoPeer THEN Throw(w)
    ELSE LET hp == IF IsAlive(w, w.predecessor_[p]) THEN Ok(w, NoPeer)
                   ELSE Call("HandlePredFailure", <<w, p, w.predecessor_[p], hops>>)
         IN  IF ~ hp.ok THEN Throw(hp.w)
             ELSE IF hp.w.successors_[p] = <<>>
             THEN LET succs == Call("GetNSuccessors", <<hp.w, p, KeyAdd(p, 1), num_succs_, hops>>)
                  IN  IF ~ succs.ok THEN Throw(succs.w)
                      ELSE Call("PopulateFingerTable", <<[hp.w EXCEPT !.successors_[p] = succs.v],
                                               p, FALSE, hops>>)
             ELSE LET living == DropDeadHead(hp.w, hp.w.successors_[p])
                      w1 == [hp.w EXCEPT !.successors_[p] = living]
                  IN  IF living = <<>>
                      THEN IF ub = "crash" THEN Throw(Crash(w1, p)) ELSE Throw(Hang(w1, p))
                      ELSE LET immediate_succ == living[1]
                               pred_of_succ == Call("GetPred", <<w1, immediate_succ, hops>>)
                           IN  IF ~ pred_of_succ.ok THEN Throw(pred_of_succ.w)
                               ELSE LET incorrect_succ ==
                                            InBetween(p, pred_of_succ.v.id_,
                                                      immediate_succ.id_, TRUE)
                                        nt == IF incorrect_succ \/ ~ IsAlive(w1, pred_of_succ.v)
                                              THEN Call("Notify", <<w1, p, immediate_succ, hops>>)
                                              ELSE Ok(w1, NoPeer)
                                        us == Call("UpdateSuccList", <<nt.w, p, hops>>)
                                    IN  IF ~ nt.ok THEN Throw(nt.w)
                                        ELSE IF ~ us.ok THEN Throw(us.w)
                                        ELSE Call("PopulateFingerTable", <<us.w, p, FALSE, hops>>)

(***************************************************************************)
(* ChordPeer: the client operations on the key/value store.                *)
(***************************************************************************)
\* CreateKeyHandler without the test of StoredLocally.
CreateKeyHandler_NoRangeCheck(w, q, key, value) ==
    IF key \notin DOMAIN w.db_[q]
    THEN Ok([w EXCEPT !.db_[q] = DbInsert(@, key, value)], NoPeer)
    ELSE Throw(w)

\* ChordPeer::CreateKeyHandler
CreateKeyHandler(w, q, key, value) ==
    IF StoredLocally(w, q, key) /\ key \notin DOMAIN w.db_[q]
    THEN Ok([w EXCEPT !.db_[q] = DbInsert(@, key, value)], NoPeer)
    ELSE Throw(w)

\* ChordPeer::Create
Create(w, p, key, value, hops) ==
    IF StoredLocally(w, p, key)
    THEN IF key \in DOMAIN w.db_[p] THEN Throw(w)
         ELSE Ok([w EXCEPT !.db_[p] = DbInsert(@, key, value)], NoPeer)
    ELSE LET succ == Call("GetSuccessor", <<w, p, key, hops>>)
         IN  IF ~ succ.ok THEN Throw(succ.w)
             ELSE IF ~ IsAlive(w, succ.v) THEN Throw(w)
             ELSE CreateKeyHandler(w, PeerOf(succ.v), key, value)

\* ChordPeer::Create up to the point where the store is asked: the test of
\* StoredLocally and, for a key of another peer, the lookup of the successor.
\* The value is the peer that will be asked and whether it is the caller's
\* own database (db_.Insert) or a CREATE_KEY request (CreateKey).
CreateFindStore(w, p, key, hops) ==
    IF StoredLocally(w, p, key) THEN Ok(w, [local |-> TRUE, succ |-> ToRemotePeer(w, p)])
    ELSE LET succ == Call("GetSuccessor", <<w, p, key, hops>>)
         IN  IF ~ succ.ok THEN Throw(succ.w)
             ELSE Ok(succ.w, [local |-> FALSE, succ |-> succ.v])

\* ChordPeer::Create from that point on: GenericDB::Insert under the lock of
\* the database (it throws for a key that is stored), or CreateKey, whose
\* request is answered by CreateKeyHandler under the same lock.
CreateStore(w, p, key, value, store) ==
    IF store.local
    THEN IF key \in DOMAIN w.db_[p] THEN Throw(w)
         ELSE Ok([w EXCEPT !.db_[p] = DbInsert(@, key, value)], NoPeer)
    ELSE IF ~ IsAlive(w, store.succ) THEN Throw(w)
         ELSE CreateKeyHandler(w, PeerOf(store.succ), key, value)

\* ChordPeer::ReadKeyHandler ; the value of the result is the VALUE field.
ReadKeyHandler(w, q, key) ==
    IF StoredLocally(w, q, key) /\ key \in DOMAIN w.db_[q]
    THEN Ok(w, w.db_[q][key])
    ELSE Throw(w)

\* ChordPeer::Read
Read(w, p, key, hops) ==
    IF StoredLocally(w, p, key)
    THEN IF key \in DOMAIN w.db_[p] THEN Ok(w, w.db_[p][key]) ELSE Throw(w)
    ELSE LET succ == Call("GetSuccessor", <<w, p, key, hops>>)
         IN  IF ~ succ.ok THEN Throw(succ.w)
             ELSE IF ~ IsAlive(w, succ.v) THEN Throw(w)
             ELSE ReadKeyHandler(w, PeerOf(succ.v), key)

(***************************************************************************)
(* DHashPeer: the store of fragments.                                      *)
(***************************************************************************)
\* DataFragment::DataFragment(vector, index): a row of the encoded block
\* and the number of the row.
DataFragment(fragment_, index_) == [fragment_ |-> fragment_, index_ |-> index_]

\* DHashPeer::CreateKeyHandler
DHashCreateKeyHandler(w, q, key, val) ==
    IF key \in DOMAIN w.db_[q] THEN Throw(w)
    ELSE Ok([w EXCEPT !.db_[q] = DbInsert(@, key, val)], NoPeer)

\* DataBlock::DataBlock(input, n, m, p): the rows of the encoded input,
\* numbered from 1.
DataBlock(input) == [i \in 1..n_ |-> DataFragment(input, i)]

\* DHashPeer::CreateKey : SendRequest throws when the peer is down and when
\* the reply has SUCCESS false, which is the reply to a handler that threw.
DHashCreateKey(w, key, val, peer) ==
    IF ~ IsAlive(w, peer) THEN Throw(w)
    ELSE DHashCreateKeyHandler(w, PeerOf(peer), key, val)

\* The loop of DHashPeer::Create over succ_list, from its i-th entry on; no
\* exception is caught in it.
RECURSIVE DHashCreateLoop(_, _, _, _, _, _, _)
DHashCreateLoop(w, p, key, val, succ_list, i, num_replicas) ==
    IF i > Len(succ_list)
    THEN IF num_replicas < m_ THEN Throw(w) ELSE Ok(w, NoPeer)
    ELSE LET succ == succ_list[i]
         IN  IF succ.id_ = p
             THEN IF key \in DOMAIN w.db_[p] THEN Throw(w)
                  ELSE DHashCreateLoop([w EXCEPT !.db_[p] = DbInsert(@, key, val[i])],
                                       p, key, val, succ_list, i + 1, num_replicas + 1)
             ELSE IF ~ IsAlive(w, succ)
             THEN DHashCreateLoop(w, p, key, val, succ_list, i + 1, num_replicas)
             ELSE LET r == DHashCreateKey(w, key, val[i], succ)
                  IN  IF ~ r.ok THEN Throw(r.w)
                      ELSE DHashCreateLoop(r.w, p, key, val, succ_list, i + 1,
                                           num_replicas + 1)

\* DHashPeer::Create(key, block)
DHashCreate(w, p, key, val, hops) ==
    LET succ_list == Call("GetNSuccessors", <<w, p, key, n_, hops>>)
    IN  IF ~ succ_list.ok THEN Throw(succ_list.w)
        ELSE IF Len(succ_list.v) < m_ THEN Throw(succ_list.w)
        ELSE DHashCreateLoop(succ_list.w, p, key, val, succ_list.v, 1, 0)

\* MerkleTree::Rehash of the i-th child of the root, a leaf: the hash of the
\* concatenated strings of its keys, in the order of the keys; ZeroHash is
\* ChordKey(0), the hash of a node without keys.  The hash function is taken
\* to be injective: Hash(s) stands for ChordKey(s, false).
ZeroHash == <<>>
Hash(concatenated_keys) == <<"sha1", concatenated_keys>>

RECURSIVE ConcatKeys(_)
ConcatKeys(keys) ==
    IF keys = {} THEN <<>>
    ELSE LET k == CHOOSE x \in keys : \A y \in keys : x <= y
         IN  IntToHexStr(k) \o ConcatKeys(keys \ {k})

LeafKeys(db, i) == {k \in DOMAIN db : ChildNum(k) = i}

LeafHash(db, i) ==
    IF LeafKeys(db, i) = {} THEN ZeroHash ELSE Hash(ConcatKeys(LeafKeys(db, i)))

\* MerkleTree::Rehash of the root: the hash of the concatenated hashes of the
\* children, ChordKey(0) when all of them are.
RootHash(db) ==
    IF \A i \in 0..(num_children_ - 1) : LeafHash(db, i) = ZeroHash THEN ZeroHash
    ELSE Hash([i \in 1..num_children_ |-> LeafHash(db, i - 1)])

\* The peer objects with the two things a maintenance step has besides
\* them: rand, the values that the calls of std::sample of the step will
\* draw, in the order of the calls, and synced, the peers that Synchronize
\* was called with.
WithRand(w, rand) == w @@ [rand |-> rand, synced |-> <<>>]

\* DHashPeer::ReadKeyHandler : FragDb::Lookup throws for a key not stored.
DHashReadKeyHandler(w, q, key) ==
    IF key \in DOMAIN w.db_[q] THEN Ok(w, w.db_[q][key]) ELSE Throw(w)

\* DHashPeer::ReadKey
DHashReadKey(w, key, peer) ==
    IF ~ IsAlive(w, peer) THEN Throw(w)
    ELSE DHashReadKeyHandler(w, PeerOf(peer), key)

\* std::set<DataFragment>::insert : the order of the set is the order of
\* index_, so a fragment whose index is in the set already is not inserted.
FragmentsInsert(fragments, frag) ==
    IF \E f \in fragments : f.index_ = frag.index_ THEN fragments
    ELSE fragments \cup {frag}

\* The loop of DHashPeer::Read over succ_list.
RECURSIVE DHashReadLoop(_, _, _, _, _, _)
DHashReadLoop(w, p, key, succ_list, i, fragments) ==
    IF i > Len(succ_list) \/ Cardinality(fragments) = m_ THEN fragments
    ELSE LET succ == succ_list[i]
         IN  IF succ.id_ = p /\ key \in DOMAIN w.db_[p]
             THEN DHashReadLoop(w, p, key, succ_list, i + 1,
                                FragmentsInsert(fragments, w.db_[p][key]))
             ELSE LET r == DHashReadKey(w, key, succ)
                  IN  DHashReadLoop(w, p, key, succ_list, i + 1,
                                    IF r.ok THEN FragmentsInsert(fragments, r.v)
                                    ELSE fragments)

\* DHashPeer::Read(key): the block rebuilt from the fragments (the input
\* decoded from them, encoded again in n_ fragments).
DHashRead(w, p, key, hops) ==
    LET succ_list == Call("GetNSuccessors", <<w, p, key, num_succs_, hops>>)
    IN  IF ~ succ_list.ok THEN Throw(succ_list.w)
        ELSE LET fragments == DHashReadLoop(succ_list.w, p, key, succ_list.v, 1, {})
             IN  IF Cardinality(fragments) < m_ THEN Throw(succ_list.w)
                 ELSE Ok(succ_list.w,
                         DataBlock((CHOOSE f \in fragments :
                                       \A g \in fragments : f.index_ <= g.index_).fragment_))

\* DHashPeer::RetrieveMissing : std::sample draws one fragment of the block.
RetrieveMissing(w, p, key, hops) ==
    LET block == Call("DHashRead", <<w, p, key, hops>>)
    IN  IF ~ block.ok THEN Throw(block.w)
        ELSE IF key \in DOMAIN block.w.db_[p] THEN Throw(block.w)
        ELSE Ok([block.w EXCEPT !.db_[p] = DbInsert(@, key, block.v[Head(block.w.rand)]),
                                !.rand = Tail(@)], NoPeer)

\* IsMissing that finds no key missing.
IsMissing_Never(w, p, k, key_range) ==
    FALSE

\* DHashPeer::IsMissing
IsMissing(w, p, k, key_range) ==
    InBetween(k, key_range[1], key_range[2], TRUE) /\ k \notin DOMAIN w.db_[p]

\* DHashPeer::CompareNodes at p when remote_node is a leaf: the keys of
\* the leaf, in their order, each retrieved when it is missing.
RetrieveAll(w, p, entries, key_range, hops) ==
    IF entries = {} THEN Ok(w, NoPeer)
    ELSE LET k == CHOOSE x \in entries : \A y \in entries : x <= y
             r == IF IsMissing(w, p, k, key_range)
                  THEN Call("RetrieveMissing", <<w, p, k, hops>>)
                  ELSE Ok(w, NoPeer)
         IN  IF ~ r.ok THEN Throw(r.w)
             ELSE Call("RetrieveAll", <<r.w, p, entries \ {k}, key_range, hops>>)

\* DHashPeer::ExchangeNodeHandler at q for the i-th child of the root of the
\* requester, whose keys are remote_keys: CompareNodes, and the reply is the
\* node of q at the same position as it was when the request came.
ExchangeNodeHandler(w, q, i, remote_keys, key_range, hops) ==
    LET r == Call("RetrieveAll", <<w, q, remote_keys, key_range, hops>>)
    IN  IF ~ r.ok THEN Throw(r.w) ELSE Ok(r.w, LeafKeys(w.db_[q], i))

\* DHashPeer::ExchangeNode
ExchangeNode(w, succ, i, local_keys, key_range, hops) ==
    IF ~ IsAlive(w, succ) THEN Throw(w)
    ELSE Call("ExchangeNodeHandler", <<w, PeerOf(succ), i, local_keys, key_range, hops>>)

\* DHashPeer::SynchronizeHelper of p for the children of the root from the
\* i-th on; local_node and remote_node are the roots that were exchanged,
\* whose children are leaves.  A child is exchanged when NeedsSync: when
\* the hashes of the two children differ.
SynchronizeChildren(w, p, succ, key_range, local_node, remote_node, i, hops) ==
    IF i >= num_children_ THEN Ok(w, NoPeer)
    ELSE IF LeafHash(local_node, i) = LeafHash(remote_node, i)
    THEN Call("SynchronizeChildren",
              <<w, p, succ, key_range, local_node, remote_node, i + 1, hops>>)
    ELSE LET x == Call("ExchangeNode",
                       <<w, succ, i, LeafKeys(local_node, i), key_range, hops>>)
         IN  IF ~ x.ok THEN Throw(x.w)
             ELSE LET c == Call("RetrieveAll", <<x.w, p, x.v, key_range, hops>>)
                  IN  IF ~ c.ok THEN Throw(c.w)
                      ELSE Call("SynchronizeChildren",
                                <<c.w, p, succ, key_range, local_node, remote_node,
                                  i + 1, hops>>)

\* DHashPeer::Synchronize : the roots are exchanged first; CompareNodes
\* does nothing with two nodes that have children.
Synchronize(w, p, succ, key_range, hops) ==
    LET w1 == [w EXCEPT !.synced = Append(@, succ.id_)]
    IN  IF ~ IsAlive(w1, succ) THEN Throw(w1)
        ELSE Call("SynchronizeChildren",
                  <<w1, p, succ, key_range, w1.db_[p], w1.db_[PeerOf(succ)], 0, hops>>)

\* The loop of DHashPeer::RunLocalMaintenance over the successor list.
LocalMaintenanceLoop(w, p, i, hops) ==
    IF i > Len(w.successors_[p]) THEN Ok(w, NoPeer)
    ELSE IF w.successors_[p][i].id_ = p
    THEN Call("LocalMaintenanceLoop", <<w, p, i + 1, hops>>)
    ELSE LET r == Call("Synchronize",
                       <<w, p, w.successors_[p][i], <<w.min_key_[p], p>>, hops>>)
         IN  IF ~ r.ok THEN Throw(r.w)
             ELSE Call("LocalMaintenanceLoop", <<r.w, p, i + 1, hops>>)

\* DHashPeer::RunLocalMaintenance
RunLocalMaintenance(w, p, hops) ==
    IF DOMAIN w.db_[p] = {} THEN Ok(w, NoPeer)
    ELSE Call("LocalMaintenanceLoop", <<w, p, 1, hops>>)

\* MerkleTree::Next at the root: the first stored key greater than key, the
\* smallest stored key when there is none; NoKey stands for nullopt.
NoKey == -1
Next_(db, key) ==
    IF DOMAIN db = {} THEN NoKey
    ELSE IF \A k \in DOMAIN db : key >= k
    THEN CHOOSE x \in DOMAIN db : \A y \in DOMAIN db : x <= y
    ELSE CHOOSE x \in DOMAIN db : x > key /\ \A y \in DOMAIN db : y > key => x <= y

\* DHashPeer::RunGlobalMaintenance for a misplaced key, the loop over the
\* keys of the peer that are in the range: a key that the successor does
\* not have in its reply is sent to it and deleted.
PushKeys(w, p, succ, keys_in_range, resp) ==
    IF keys_in_range = {} THEN Ok(w, NoPeer)
    ELSE LET key == CHOOSE x \in keys_in_range : \A y \in keys_in_range : x <= y
         IN  IF key \in resp
             THEN Call("PushKeys", <<w, p, succ, keys_in_range \ {key}, resp>>)
             ELSE LET c == DHashCreateKey(w, key, w.db_[p][key], succ)
                  IN  IF ~ c.ok THEN Throw(c.w)
                      ELSE Call("PushKeys",
                                <<[c.w EXCEPT !.db_[p] = DbDelete(@, {key})], p, succ,
                                  keys_in_range \ {key}, resp>>)

\* The loop of RunGlobalMaintenance over the successors of a misplaced key;
\* ReadRange throws when the successor is down.
PushToSuccs(w, p, succs, j, lower_bound, upper_bound) ==
    IF j > Len(succs) THEN Ok(w, NoPeer)
    ELSE IF ~ IsAlive(w, succs[j]) THEN Throw(w)
    ELSE LET resp == ReadRange(w.db_[PeerOf(succs[j])], lower_bound, upper_bound)
             keys_in_range == ReadRange(w.db_[p], lower_bound, upper_bound)
             r == Call("PushKeys", <<w, p, succs[j], keys_in_range, resp>>)
         IN  IF ~ r.ok THEN Throw(r.w)
             ELSE Call("PushToSuccs", <<r.w, p, succs, j + 1, lower_bound, upper_bound>>)

\* The while loop of RunGlobalMaintenance.  The source has no bound on the
\* iterations; steps counts them, and a loop that is still running after
\* MaxKeyWalk of them is taken not to end.
GlobalMaintenanceLoop(w, p, current_key, starting_key, first_iter, steps, hops) ==
    LET next == Next_(w.db_[p], current_key)
    IN  IF next = NoKey THEN Ok(w, NoPeer)
        ELSE IF InBetween(next, p, starting_key, TRUE) /\ ~ first_iter THEN Ok(w, NoPeer)
        ELSE IF steps >= MaxKeyWalk THEN Throw(Hang(w, p))
        ELSE LET succs == Call("GetNSuccessors", <<w, p, next, n_, hops>>)
             IN  IF ~ succs.ok \/ succs.v = <<>> THEN Throw(succs.w)
                 ELSE LET key_is_misplaced ==
                              \A i \in DOMAIN succs.v : succs.v[i].id_ # p
                          r == IF key_is_misplaced
                               THEN Call("PushToSuccs",
                                         <<succs.w, p, succs.v, 1, next, succs.v[1].id_>>)
                               ELSE Ok(succs.w, NoPeer)
                      IN  IF ~ r.ok THEN Throw(r.w)
                          ELSE Call("GlobalMaintenanceLoop",
                                    <<r.w, p, succs.v[1].id_, starting_key, FALSE,
                                      steps + 1, hops>>)

\* DHashPeer::RunGlobalMaintenance
RunGlobalMaintenance(w, p, hops) ==
    LET starting_key == IF Next_(w.db_[p], p) # NoKey THEN Next_(w.db_[p], p) ELSE 0
    IN  Call("GlobalMaintenanceLoop", <<w, p, p, starting_key, TRUE, 0, hops>>)

\* One round of DHashPeer::MaintenanceLoop: Stabilize, RunGlobalMaintenance,
\* RunLocalMaintenance; the exception of any of them ends the round.
DHashMaintenance(w, p, ub, hops) ==
    LET s == Call("Stabilize", <<w, p, ub, hops>>)
    IN  IF ~ s.ok THEN Throw(s.w)
        ELSE LET g == Call("RunGlobalMaintenance", <<s.w, p, hops>>)
             IN  IF ~ g.ok THEN Throw(g.w)
                 ELSE Call("RunLocalMaintenance", <<g.w, p, hops>>)

\* The handler the server of q has for CREATE_KEY (a virtual function of
\* AbstractChordPeer, bound in the constructor of the class of q).
CreateKeyHandlerOf(w, q, key, val) ==
    IF w.type_ = "DHashPeer" THEN DHashCreateKeyHandler(w, q, key, val)
    ELSE CreateKeyHandler(w, q, key, val)

\* The operations by their names; a is the tuple of the arguments.
Call(op, a) ==
    CASE op = "SendLookup" ->
             SendLookup(a[1], a[2], a[3], a[4], a[5])
      [] op = "ForwardRequest" ->
             ForwardRequest(a[1], a[2], a[3], a[4], a[5])
      [] op = "GetSuccessor" ->
             GetSuccessor(a[1], a[2], a[3], a[4])
      [] op = "GetPred" ->
             GetPred(a[1], a[2], a[3])
      [] op = "GetPredecessor" ->
             GetPredecessor(a[1], a[2], a[3], a[4])
      [] op = "GetNSuccLoop" ->
             GetNSuccLoop(a[1], a[2], a[3], a[4], a[5], a[6])
      [] op = "GetNSuccessors" ->
             GetNSuccessors(a[1], a[2], a[3], a[4], a[5])
      [] op = "GetNPredLoop" ->
             GetNPredLoop(a[1], a[2], a[3], a[4], a[5], a[6], a[7], a[8])
      [] op = "GetNPredecessors" ->
             GetNPredecessors(a[1], a[2], a[3], a[4], a[5])
      [] op = "PFTLoop" ->
             PFTLoop(a[1], a[2], a[3], a[4], a[5])
      [] op = "PopulateFingerTable" ->
             PopulateFingerTable(a[1], a[2], a[3], a[4])
      [] op = "Notify" ->
             Notify(a[1], a[2], a[3], a[4])
      [] op = "RectifyHandler" ->
             RectifyHandler(a[1], a[2], a[3], a[4], a[5])
      [] op = "RectifyLoop" ->
             RectifyLoop(a[1], a[2], a[3], a[4], a[5], a[6])
      [] op = "Rectify" ->
             Rectify(a[1], a[2], a[3], a[4])
      [] op = "HandlePredFailure" ->
             HandlePredFailure(a[1], a[2], a[3], a[4])
      [] op = "HandleNotifyFromPred" ->
             HandleNotifyFromPred(a[1], a[2], a[3], a[4])
      [] op = "NotifyHandler" ->
             NotifyHandler(a[1], a[2], a[3], a[4])
      [] op = "FixLoop" ->
             FixLoop(a[1], a[2], a[3], a[4], a[5], a[6])
      [] op = "FixOtherFingers" ->
             FixOtherFingers(a[1], a[2], a[3], a[4])
      [] op = "JoinHandler" ->
             JoinHandler(a[1], a[2], a[3], a[4])
      [] op = "Join" ->
             Join(a[1], a[2], a[3], a[4])
      [] op = "LeaveHandler" ->
             LeaveHandler(a[1], a[2], a[3], a[4])
      [] op = "SendLeave" ->
             SendLeave(a[1], a[2], a[3], a[4])
      [] op = "LeaveLoop" ->
             LeaveLoop(a[1], a[2], a[3], a[4], a[5])
      [] op = "Leave" ->
             Leave(a[1], a[2], a[3])
      [] op = "PredWalk" ->
             PredWalk(a[1], a[2], a[3], a[4], a[5], a[6])
      [] op = "SuccWalk" ->
             SuccWalk(a[1], a[2], a[3], a[4], a[5], a[6])
      [] op = "UpdateSuccList" ->
             UpdateSuccList(a[1], a[2], a[3])
      [] op = "Stabilize" ->
             Stabilize(a[1], a[2], a[3], a[4])
      [] op = "DHashRead" ->
             DHashRead(a[1], a[2], a[3], a[4])
      [] op = "RetrieveMissing" ->
             RetrieveMissing(a[1], a[2], a[3], a[4])
      [] op = "RetrieveAll" ->
             RetrieveAll(a[1], a[2], a[3], a[4], a[5])
      [] op = "ExchangeNodeHandler" ->
             ExchangeNodeHandler(a[1], a[2], a[3], a[4], a[5], a[6])
      [] op = "ExchangeNode" ->
             ExchangeNode(a[1], a[2], a[3], a[4], a[5], a[6])
      [] op = "SynchronizeChildren" ->
             SynchronizeChildren(a[1], a[2], a[3], a[4], a[5], a[6], a[7], a[8])
      [] op = "Synchronize" ->
             Synchronize(a[1], a[2], a[3], a[4], a[5])
      [] op = "LocalMaintenanceLoop" ->
             LocalMaintenanceLoop(a[1], a[2], a[3], a[4])
      [] op = "RunLocalMaintenance" ->
             RunLocalMaintenance(a[1], a[2], a[3])
      [] op = "PushKeys" ->
             PushKeys(a[1], a[2], a[3], a[4], a[5])
      [] op = "PushToSuccs" ->
             PushToSuccs(a[1], a[2], a[3], a[4], a[5], a[6])
      [] op = "GlobalMaintenanceLoop" ->
             GlobalMaintenanceLoop(a[1], a[2], a[3], a[4], a[5], a[6], a[7])
      [] op = "RunGlobalMaintenance" ->
             RunGlobalMaintenance(a[1], a[2], a[3])
      [] op = "DHashMaintenance" ->
             DHashMaintenance(a[1], a[2], a[3], a[4])
      [] op = "DHashCreate" ->
             DHashCreate(a[1], a[2], a[3], a[4], a[5])
      [] op = "CreateFindStore" ->
             CreateFindStore(a[1], a[2], a[3], a[4])
      [] op = "Create" ->
             Create(a[1], a[2], a[3], a[4], a[5])
      [] op = "Read" ->
             Read(a[1], a[2], a[3], a[4])

(***************************************************************************)
(* The state machine.                                                      *)
(***************************************************************************)
VARIABLES
    type_,          \* class of the peers of the ring
    server_,        \* server_[p]: the server of p is alive
    maintenance,    \* maintenance[p]: the maintenance thread of p runs
    min_key_,       \* AbstractChordPeer::min_key_
    predecessor_,   \* AbstractChordPeer::predecessor_ (NoPeer when not set)
    finger_table_,  \* AbstractChordPeer::finger_table_ (its table_)
    successors_,    \* AbstractChordPeer::successors_ (its peers_)
    db_,            \* ChordPeer::db_
    notified,       \* the runs of NotifyHandler of the last step
    phase,          \* "new", "member", "left", "failed", "aborted"
    churn,          \* number of Leave and Fail calls so far
    rounds,         \* rounds[p]: Stabilize runs of p since the last membership change
    created,        \* the pairs stored by the Create calls that returned
    disturbed,      \* a Join has run after the first Leave or Fail
    stabilize_thread_,  \* the thread of the maintenance loop: "none",
                    \* "running", "stuck" (in a call that never returns), "finished"
    calls,          \* calls[c]: the Create call of the client thread c, its
                    \* position in ChordPeer::Create and its outcome
    args,           \* the arguments of the call of a function on its own
    ret             \* what the call returned, <<>> before the call

vars == <<type_, server_, maintenance, min_key_, predecessor_, finger_table_,
          successors_, db_, notified, phase, churn, rounds, created,
          disturbed, stabilize_thread_, calls, args, ret>>

\* The world the operators work on; the log of the step starts empty.
World ==
    [type_ |-> type_, server_ |-> server_, maintenance |-> maintenance,
     min_key_ |-> min_key_, predecessor_ |-> predecessor_,
     finger_table_ |-> finger_table_, successors_ |-> successors_,
     db_ |-> db_, notified |-> <<>>]

\* The fields of the peers, without the log.
PeerState(w) == [w EXCEPT !.notified = <<>>]

\* ChordPeer::StartMaintenance / DHashPeer::StartMaintenance start the thread
\* of the loop; nothing else in a step of a peer touches the thread.  A
\* thread whose call never returns is stuck.
ThreadAfter(w, p) ==
    IF ~ maintenance[p] /\ w.maintenance[p] THEN "running"
    ELSE IF maintenance[p] /\ ~ w.maintenance[p] /\ w.server_[p] THEN "stuck"
    ELSE stabilize_thread_[p]

CommitWorld(w) ==
    /\ type_' = w.type_
    /\ server_' = w.server_
    /\ maintenance' = w.maintenance
    /\ min_key_' = w.min_key_
    /\ predecessor_' = w.predecessor_
    /\ finger_table_' = w.finger_table_
    /\ successors_' = w.successors_
    /\ db_' = w.db_
    /\ notified' = w.notified
    /\ stabilize_thread_' = [p \in PeerIds |-> ThreadAfter(w, p)]

Commit(w) ==
    /\ CommitWorld(w)
    /\ UNCHANGED <<calls, args, ret>>

\* The client threads that call Create, and a thread that has called nothing.
Clients == 1..MaxClients
NoCall == [pc |-> "idle"]

\* AbstractChordPeer / ChordPeer / DHashPeer constructors: the server runs,
\* min_key_ is id_, the tables are empty and no predecessor is set.
InitRing ==
    /\ type_ \in {"ChordPeer", "DHashPeer"}
    /\ server_ = [p \in PeerIds |-> TRUE]
    /\ maintenance = [p \in PeerIds |-> FALSE]
    /\ min_key_ = [p \in PeerIds |-> p]
    /\ predecessor_ = [p \in PeerIds |-> NoPeer]
    /\ finger_table_ = [p \in PeerIds |-> <<>>]
    /\ successors_ = [p \in PeerIds |-> <<>>]
    /\ db_ = [p \in PeerIds |-> EmptyDb]
    /\ notified = <<>>
    /\ phase = [p \in PeerIds |-> "new"]
    /\ churn = 0
    /\ rounds = [p \in PeerIds |-> 0]
    /\ created = EmptyDb
    /\ disturbed = FALSE
    /\ stabilize_thread_ = [p \in PeerIds |-> "none"]
    /\ calls = [c \in Clients |-> NoCall]

Init ==
    /\ InitRing
    /\ args = <<>>
    /\ ret = <<>>

NoRounds == [p \in PeerIds |-> 0]

\* AbstractChordPeer::StartChord, called on the first peer of the ring.
StartChordAction(p) ==
    /\ \A q \in PeerIds : phase[q] = "new"
    /\ Commit([World EXCEPT !.min_key_[p] = KeyAdd(p, 1), !.maintenance[p] = TRUE])
    /\ phase' = [phase EXCEPT ![p] = "member"]
    /\ rounds' = NoRounds
    /\ UNCHANGED <<churn, created, disturbed>>

\* Join(gateway) called on a new peer; the gateway is a peer of the ring
\* that can be reached.
JoinAction(p, g) ==
    /\ phase[p] = "new"
    /\ phase[g] = "member"
    /\ server_[g]
    /\ LET r == Call("Join", <<World, p, RemotePeer(g, g, Port(g)), MaxHops>>)
       IN  /\ Commit(r.w)
           /\ phase' = [phase EXCEPT ![p] = IF r.ok THEN "member" ELSE "aborted"]
    /\ rounds' = NoRounds
    /\ disturbed' = (disturbed \/ churn > 0)
    /\ UNCHANGED <<churn, created>>

\* Leave() called on a peer of the ring.
LeaveAction(p) ==
    /\ phase[p] = "member"
    /\ server_[p]
    /\ churn < MaxChurn
    /\ LET r == Call("Leave", <<World, p, MaxHops>>)
       IN  /\ Commit(r.w)
           /\ phase' = [phase EXCEPT ![p] = IF r.ok THEN "left" ELSE @]
    /\ churn' = churn + 1
    /\ rounds' = NoRounds
    /\ UNCHANGED <<created, disturbed>>

\* Fail() called on a peer of the ring.
FailAction(p) ==
    /\ phase[p] = "member"
    /\ server_[p]
    /\ churn < MaxChurn
    /\ Commit(Fail(World, p))
    /\ phase' = [phase EXCEPT ![p] = "failed"]
    /\ churn' = churn + 1
    /\ rounds' = NoRounds
    /\ UNCHANGED <<created, disturbed>>

\* One round of ChordPeer::StabilizeLoop / DHashPeer::MaintenanceLoop: the
\* call of Stabilize; an exception is caught by the loop.
StabilizeAction(p, ub) ==
    /\ maintenance[p]
    /\ rounds[p] < MaxRounds
    /\ Commit(Call("Stabilize", <<World, p, ub, MaxHops>>).w)
    /\ rounds' = [rounds EXCEPT ![p] = @ + 1]
    /\ UNCHANGED <<phase, churn, created, disturbed>>

\* ChordPeer::Create called by a client of a peer of the ring; the clients
\* store their pairs before the first peer leaves.
CreateAction(p, key, value) ==
    /\ phase[p] = "member"
    /\ server_[p]
    /\ churn = 0
    /\ LET r == Call("Create", <<World, p, key, value, MaxHops>>)
       IN  /\ Commit(r.w)
           /\ created' = IF r.ok THEN DbInsert(created, key, value) ELSE created
    /\ UNCHANGED <<phase, churn, rounds, disturbed>>

Next ==
    \/ \E p \in PeerIds : StartChordAction(p)
    \/ \E p, g \in PeerIds : JoinAction(p, g)
    \/ \E p \in PeerIds : LeaveAction(p)
    \/ \E p \in PeerIds : FailAction(p)
    \/ \E p \in PeerIds, ub \in {"crash", "stale"} : StabilizeAction(p, ub)

Spec == Init /\ [][Next]_vars

\* The ring of ChordPeer objects with the clients' Create calls; the peers
\* leave the ring with Leave.
InitData == Init /\ type_ = "ChordPeer"

\* A round of the maintenance loop, at most MaxDataRounds of them per peer
\* after a membership change.
StabilizeDataAction(p, ub) ==
    /\ rounds[p] < MaxDataRounds
    /\ StabilizeAction(p, ub)

NextData ==
    \/ \E p \in PeerIds : StartChordAction(p)
    \/ \E p, g \in PeerIds : JoinAction(p, g)
    \/ \E p \in PeerIds : LeaveAction(p)
    \/ \E p \in PeerIds, ub \in {"crash", "stale"} : StabilizeDataAction(p, ub)
    \/ \E p \in PeerIds, key \in ClientKeys, value \in Values : CreateAction(p, key, value)

SpecData == InitData /\ [][NextData]_vars

\* The ring on which the properties evaluate every lookup of every peer: one
\* peer at most leaves or fails, and a peer runs MaxLookupRounds rounds.
LeaveLookupAction(p) ==
    /\ churn < MaxLookupChurn
    /\ LeaveAction(p)

FailLookupAction(p) ==
    /\ churn < MaxLookupChurn
    /\ FailAction(p)

StabilizeLookupAction(p, ub) ==
    /\ rounds[p] < MaxLookupRounds
    /\ StabilizeAction(p, ub)

NextLookup ==
    \/ \E p \in PeerIds : StartChordAction(p)
    \/ \E p, g \in PeerIds : JoinAction(p, g)
    \/ \E p \in PeerIds : LeaveLookupAction(p)
    \/ \E p \in PeerIds : FailLookupAction(p)
    \/ \E p \in PeerIds, ub \in {"crash", "stale"} : StabilizeLookupAction(p, ub)

SpecLookup == Init /\ [][NextLookup]_vars

(***************************************************************************)
(* The ring with the end of the maintenance loop as a step of its own.     *)
(***************************************************************************)
\* ChordPeer::StabilizeLoop / DHashPeer::MaintenanceLoop : the loop reads
\* its flag, finds it false and the thread ends.
ExitLoopAction(p) ==
    /\ stabilize_thread_[p] = "running"
    /\ ~ maintenance[p]
    /\ stabilize_thread_' = [stabilize_thread_ EXCEPT ![p] = "finished"]
    /\ UNCHANGED <<type_, server_, maintenance, min_key_, predecessor_,
                   finger_table_, successors_, db_, notified, phase, churn,
                   rounds, created, disturbed, calls, args, ret>>

NextShutdown ==
    \/ \E p \in PeerIds : StartChordAction(p)
    \/ \E p, g \in PeerIds : JoinAction(p, g)
    \/ \E p \in PeerIds : LeaveLookupAction(p)
    \/ \E p \in PeerIds : FailLookupAction(p)
    \/ \E p \in PeerIds, ub \in {"crash", "stale"} : StabilizeLookupAction(p, ub)
    \/ \E p \in PeerIds : ExitLoopAction(p)

SpecShutdown == Init /\ [][NextShutdown]_vars

(***************************************************************************)
(* The ring whose servers receive CREATE_KEY requests, for keys inside and *)
(* outside of the range of the recipient.                                  *)
(***************************************************************************)
\* What a client puts in the VALUE field for a peer of either class.
RequestValues == IF type_ = "DHashPeer" THEN {DataFragment(v, 0) : v \in Values}
                 ELSE Values

\* Server::HandleRequest on a CREATE_KEY message for q: the handler runs;
\* args records the recipient as the message found it, ret the reply and
\* the database after the handler.
CreateKeyRequestAction(q, key, val) ==
    /\ phase[q] = "member"
    /\ server_[q]
    /\ LET r == CreateKeyHandlerOf(World, q, key, val)
       IN  /\ CommitWorld(r.w)
           /\ args' = [id_ |-> q, min_key_ |-> min_key_[q], db_ |-> db_[q],
                       key |-> key, val |-> val]
           /\ ret' = <<[SUCCESS |-> r.ok, db_ |-> r.w.db_[q]]>>
    /\ UNCHANGED <<phase, churn, rounds, created, disturbed, calls>>

NextCreateKey ==
    \/ \E p \in PeerIds : StartChordAction(p)
    \/ \E p, g \in PeerIds : JoinAction(p, g)
    \/ \E q \in PeerIds, key \in ClientKeys :
           \E val \in RequestValues : CreateKeyRequestAction(q, key, val)

SpecCreateKey == Init /\ [][NextCreateKey]_vars

(***************************************************************************)
(* The ring of ChordPeer objects whose clients call Create from threads    *)
(* of their own: a call is two steps, and the steps of the other calls,    *)
(* and the joins of new peers, come in between.                            *)
(***************************************************************************)
\* The calls that are inside Create.
InCreate == {c \in Clients : calls[c].pc = "store"}

\* The client thread c calls Create(key, value) of p; the call comes to the
\* point where the store is asked, or throws before.
CreateCallAction(c, p, key, value) ==
    /\ calls[c].pc = "idle"
    /\ phase[p] = "member"
    /\ server_[p]
    /\ LET r == Call("CreateFindStore", <<World, p, key, MaxHops>>)
       IN  /\ CommitWorld(r.w)
           /\ calls' = [calls EXCEPT ![c] =
                  IF r.ok
                  THEN [pc |-> "store", p |-> p, key |-> key, value |-> value,
                        store |-> r.v, with |-> InCreate]
                  ELSE [pc |-> "done", key |-> key, success |-> FALSE,
                        with |-> InCreate]]
    /\ UNCHANGED <<phase, churn, rounds, created, disturbed, args, ret>>

\* The call of c asks the store and returns; "with" are the calls that were
\* inside Create while this one was.
CreateReturnAction(c) ==
    /\ calls[c].pc = "store"
    /\ LET r == CreateStore(World, calls[c].p, calls[c].key, calls[c].value,
                            calls[c].store)
       IN  /\ CommitWorld(r.w)
           /\ calls' = [d \in Clients |->
                  IF d = c
                  THEN [pc |-> "done", key |-> calls[c].key, success |-> r.ok,
                        with |-> calls[c].with]
                  ELSE IF calls[d].pc = "store"
                  THEN [calls[d] EXCEPT !.with = @ \cup {c}]
                  ELSE calls[d]]
           /\ created' = IF r.ok THEN DbInsert(created, calls[c].key, calls[c].value)
                         ELSE created
    /\ UNCHANGED <<phase, churn, rounds, disturbed, args, ret>>

NextCreateRace ==
    \/ \E p \in PeerIds : StartChordAction(p)
    \/ \E p, g \in PeerIds : JoinAction(p, g)
    \/ \E c \in Clients, p \in PeerIds, key \in ClientKeys, value \in Values :
           CreateCallAction(c, p, key, value)
    \/ \E c \in Clients : CreateReturnAction(c)

SpecCreateRace == InitData /\ [][NextCreateRace]_vars

(***************************************************************************)
(* The ring of ChordPeer objects whose servers answer CREATE_KEY on a      *)
(* thread of their own: the handler is two steps, the test of the range    *)
(* and the insertion, and the joins of new peers (with their Notify) come  *)
(* in between.                                                             *)
(***************************************************************************)
\* ChordPeer::CreateKeyHandler at q up to the test "if(StoredLocally(key))":
\* the thread c of the server goes on to db_.Insert or throws.
CreateKeyTestAction(c, q, key, value) ==
    /\ calls[c].pc = "idle"
    /\ phase[q] = "member"
    /\ server_[q]
    /\ calls' = [calls EXCEPT ![c] =
           IF StoredLocally(World, q, key)
           THEN [pc |-> "insert", p |-> q, key |-> key, value |-> value]
           ELSE [pc |-> "done", p |-> q, key |-> key, success |-> FALSE]]
    /\ UNCHANGED <<type_, server_, maintenance, min_key_, predecessor_,
                   finger_table_, successors_, db_, notified, phase, churn,
                   rounds, created, disturbed, stabilize_thread_, args, ret>>

\* ChordPeer::CreateKeyHandler from db_.Insert on: the insertion throws for
\* a key that is stored.
CreateKeyInsertAction(c) ==
    /\ calls[c].pc = "insert"
    /\ LET q == calls[c].p
           key == calls[c].key
           stored == key \in DOMAIN db_[q]
       IN  /\ db_' = IF stored THEN db_
                     ELSE [db_ EXCEPT ![q] = DbInsert(@, key, calls[c].value)]
           /\ calls' = [calls EXCEPT ![c] =
                  [pc |-> "done", p |-> q, key |-> key, success |-> ~ stored]]
    /\ UNCHANGED <<type_, server_, maintenance, min_key_, predecessor_,
                   finger_table_, successors_, notified, phase, churn, rounds,
                   created, disturbed, stabilize_thread_, args, ret>>

SpecCreateKeyRace ==
    InitData /\ [][\/ \E p \in PeerIds : StartChordAction(p)
                   \/ \E p, g \in PeerIds : JoinAction(p, g)
                   \/ \E c \in Clients, q \in PeerIds, key \in ClientKeys,
                         value \in Values : CreateKeyTestAction(c, q, key, value)
                   \/ \E c \in Clients : CreateKeyInsertAction(c)]_vars

(***************************************************************************)
(* The ring of DHashPeer objects whose clients call Create; peers join and *)
(* fail between the calls.                                                 *)
(***************************************************************************)
InitDHash == Init /\ type_ = "DHashPeer"

\* DHashPeer::Create(key, value) called by a client of p.  args records the
\* ring as the call found it and the successors of the key that the call
\* was given, ret whether the call returned and the databases after it.
DHashCreateAction(p, key, value) ==
    /\ phase[p] = "member"
    /\ server_[p]
    /\ LET r == Call("DHashCreate", <<World, p, key, DataBlock(value), MaxHops>>)
           succ_list == Call("GetNSuccessors", <<World, p, key, n_, MaxHops>>)
       IN  /\ CommitWorld(r.w)
           /\ args' = [id_ |-> p, key |-> key, db_ |-> db_, server_ |-> server_,
                       succ_list |-> IF succ_list.ok THEN succ_list.v ELSE <<>>]
           /\ ret' = <<[returned |-> r.ok, db_ |-> r.w.db_]>>
           /\ created' = IF r.ok /\ key \notin DOMAIN created
                         THEN DbInsert(created, key, value) ELSE created
    /\ UNCHANGED <<phase, churn, rounds, disturbed, calls>>

NextDHashCreate ==
    \/ \E p \in PeerIds : StartChordAction(p)
    \/ \E p, g \in PeerIds : JoinAction(p, g)
    \/ \E p \in PeerIds : FailLookupAction(p)
    \/ \E p \in PeerIds, key \in ClientKeys, value \in Values :
           DHashCreateAction(p, key, value)

SpecDHashCreate == InitDHash /\ [][NextDHashCreate]_vars

(***************************************************************************)
(* The ring of DHashPeer objects with the rounds of the maintenance loop.  *)
(***************************************************************************)
\* The keys that the clients of the DHashPeer objects create.
DHashKeys == {40}

\* The values that the calls of std::sample of one step can draw: one call
\* for every key and every successor at most.
Samples == [1..MaxSamples -> 1..n_]

\* A round of DHashPeer::MaintenanceLoop of p.  A round that draws nothing
\* from a first sequence of values calls std::sample nowhere and is the
\* same for every sequence; the other rounds are taken for every sequence.
MaintenanceAction(p, ub) ==
    /\ maintenance[p]
    /\ rounds[p] < MaxDHashRounds
    /\ LET first == Call("DHashMaintenance",
                         <<WithRand(World, [i \in 1..MaxSamples |-> 1]), p, ub, MaxHops>>)
       IN  IF Len(first.w.rand) = MaxSamples
           THEN Commit(first.w)
           ELSE \E rand \in Samples :
                    Commit(Call("DHashMaintenance",
                                <<WithRand(World, rand), p, ub, MaxHops>>).w)
    /\ rounds' = [rounds EXCEPT ![p] = @ + 1]
    /\ UNCHANGED <<phase, churn, created, disturbed>>

\* DHashPeer::Create called by a client; no state is kept of the call.
DHashClientCreateAction(p, key, value) ==
    /\ phase[p] = "member"
    /\ server_[p]
    /\ key \notin DOMAIN created
    /\ LET r == Call("DHashCreate", <<World, p, key, DataBlock(value), MaxHops>>)
       IN  /\ Commit(r.w)
           /\ created' = IF r.ok THEN DbInsert(created, key, value) ELSE created
    /\ UNCHANGED <<phase, churn, rounds, disturbed>>

NextDHash ==
    \/ \E p \in PeerIds : StartChordAction(p)
    \/ \E p, g \in PeerIds : JoinAction(p, g)
    \/ \E p \in PeerIds : FailLookupAction(p)
    \/ \E p \in PeerIds, key \in DHashKeys, value \in Values :
           DHashClientCreateAction(p, key, value)
    \/ \E p \in PeerIds, ub \in {"crash", "stale"} : MaintenanceAction(p, ub)

SpecDHash == InitDHash /\ [][NextDHash]_vars

\* The ring of DHashPeer objects whose clients create the keys of
\* ClientKeys, so that a peer holds several keys when a round of its
\* maintenance loop runs; no peer fails.
SpecDHashKeys ==
    /\ InitDHash
    /\ [][\/ \E p \in PeerIds : StartChordAction(p)
          \/ \E p, g \in PeerIds : JoinAction(p, g)
          \/ \E p \in PeerIds, key \in ClientKeys, value \in Values :
                 DHashClientCreateAction(p, key, value)
          \/ \E p \in PeerIds, ub \in {"crash", "stale"} :
                 MaintenanceAction(p, ub)]_vars

(***************************************************************************)
(* The threads of one peer in the methods of its shared structures.  Each  *)
(* structure has a std::shared_mutex; a method that declares a ReadLock    *)
(* holds it shared and one that declares a WriteLock holds it exclusive    *)
(* from its first statement to its return.                                 *)
(***************************************************************************)
\* The methods of min_key_, predecessor_, successors_ and db_: whether the
\* method reads or writes the data of the structure, and the lock that its
\* body declares.
SharedMethods ==
    {[structure |-> "min_key_", method |-> "ThreadSafeKey::Set", access |-> "write", lock |-> "exclusive"],
     [structure |-> "min_key_", method |-> "ThreadSafeKey::Get", access |-> "read", lock |-> "none"],
     [structure |-> "predecessor_", method |-> "ThreadSafeRemotePeer::Set", access |-> "write", lock |-> "exclusive"],
     [structure |-> "predecessor_", method |-> "ThreadSafeRemotePeer::Get", access |-> "read", lock |-> "shared"],
     [structure |-> "predecessor_", method |-> "ThreadSafeRemotePeer::IsSet", access |-> "read", lock |-> "none"],
     [structure |-> "predecessor_", method |-> "ThreadSafeRemotePeer::Reset", access |-> "write", lock |-> "none"],
     [structure |-> "successors_", method |-> "RemotePeerList::Populate", access |-> "write", lock |-> "none"],
     [structure |-> "successors_", method |-> "RemotePeerList::Insert", access |-> "write", lock |-> "exclusive"],
     [structure |-> "successors_", method |-> "RemotePeerList::Delete", access |-> "write", lock |-> "exclusive"],
     [structure |-> "successors_", method |-> "RemotePeerList::Erase", access |-> "write", lock |-> "none"],
     [structure |-> "successors_", method |-> "RemotePeerList::Contains", access |-> "read", lock |-> "none"],
     [structure |-> "successors_", method |-> "RemotePeerList::GetNthEntry", access |-> "read", lock |-> "shared"],
     [structure |-> "successors_", method |-> "RemotePeerList::Size", access |-> "read", lock |-> "shared"],
     [structure |-> "successors_", method |-> "RemotePeerList::GetEntries", access |-> "read", lock |-> "shared"],
     [structure |-> "db_", method |-> "GenericDB::Insert", access |-> "write", lock |-> "exclusive"],
     [structure |-> "db_", method |-> "GenericDB::Delete", access |-> "write", lock |-> "exclusive"],
     [structure |-> "db_", method |-> "GenericDB::Lookup", access |-> "read", lock |-> "shared"],
     [structure |-> "db_", method |-> "GenericDB::Size", access |-> "read", lock |-> "none"]}

\* Thread c is in a method of the structure and holds its mutex in the mode.
Holds(c, structure, mode) ==
    /\ calls[c].pc = "access"
    /\ calls[c].call.structure = structure
    /\ calls[c].call.lock = mode

\* Thread c enters method m: the constructor of the lock, if the method
\* has one, returns when the mutex can be taken in its mode.
MethodEntryAction(c, m) ==
    /\ calls[c].pc = "idle"
    /\ \A d \in Clients \ {c} :
           /\ m.lock = "shared" => ~ Holds(d, m.structure, "exclusive")
           /\ m.lock = "exclusive" =>
                  ~ Holds(d, m.structure, "exclusive") /\ ~ Holds(d, m.structure, "shared")
    /\ calls' = [calls EXCEPT ![c] = [pc |-> "access", call |-> m]]
    /\ UNCHANGED <<type_, server_, maintenance, min_key_, predecessor_,
                   finger_table_, successors_, db_, notified, phase, churn,
                   rounds, created, disturbed, stabilize_thread_, args, ret>>

\* Thread c returns from the method it is in; the destructor of its lock
\* releases the mutex.
MethodReturnAction(c) ==
    /\ calls[c].pc = "access"
    /\ calls' = [calls EXCEPT ![c] = NoCall]
    /\ UNCHANGED <<type_, server_, maintenance, min_key_, predecessor_,
                   finger_table_, successors_, db_, notified, phase, churn,
                   rounds, created, disturbed, stabilize_thread_, args, ret>>

SpecLocks ==
    /\ InitData
    /\ [][\/ \E c \in Clients, m \in SharedMethods : MethodEntryAction(c, m)
          \/ \E c \in Clients : MethodReturnAction(c)]_vars

(***************************************************************************)
(* Calls of one function on an object of its own: args holds the object    *)
(* and the arguments, ret is <<>> before the call and holds the result     *)
(* after it.  The peers of the ring take no step.                          *)
(***************************************************************************)
ringvars == <<type_, server_, maintenance, min_key_, predecessor_,
              finger_table_, successors_, db_, notified, phase, churn, rounds,
              created, disturbed, stabilize_thread_, calls>>

\* The table AbstractChordPeer::PopulateFingerTable(true) builds for a peer
\* with identifier starting_key_ when every lookup returns succ.
TableOf(starting_key_, succ) ==
    [i \in 1..BinaryLen |->
        Finger(GetNthRange(starting_key_, i - 1)[1],
               GetNthRange(starting_key_, i - 1)[2], succ)]

\* The LEAVE message AbstractChordPeer::Leave builds at peer l, and the same
\* message with the field NEW_SUCC.
LeaveMessage(l) ==
    [LEAVING_ID |-> l, NEW_PRED |-> RemotePeer(l, l, Port(l)), NEW_MIN |-> l,
     KEYS_TO_ABSORB |-> EmptyKv]

LeaveMessageWithSucc(l, n) ==
    [LEAVING_ID |-> l, NEW_PRED |-> RemotePeer(l, l, Port(l)), NEW_MIN |-> l,
     KEYS_TO_ABSORB |-> EmptyKv, NEW_SUCC |-> RemotePeer(n, KeyAdd(l, 1), Port(n))]

LeaveMessages ==
    {LeaveMessage(l) : l \in PeerIds}
    \cup {LeaveMessageWithSucc(l, n) : l \in PeerIds, n \in PeerIds}

\* The handler of LEAVE runs at a peer with any identifier of the ring.
InitLeaveFingers ==
    /\ InitRing /\ type_ = "ChordPeer"
    /\ \E k \in 0 .. (keys_in_ring_ - 1), s \in PeerIds, m \in LeaveMessages :
           args = [table_ |-> TableOf(k, RemotePeer(s, KeyAdd(k, 1), Port(s))),
                   request |-> m]
    /\ ret = <<>>

LeaveFingersAction ==
    /\ ret = <<>>
    /\ ret' = <<LeaveAdjustFingers(args.table_, args.request)>>
    /\ UNCHANGED <<ringvars, args>>

NextLeaveFingers == LeaveFingersAction

SpecLeaveFingers == InitLeaveFingers /\ [][NextLeaveFingers]_vars

(***************************************************************************)
(* IDA: the information dispersal coder (ida.cpp, matrix_math.cpp).  A     *)
(* Vector is a sequence of int, a Matrix a sequence of rows.  An operation *)
(* that throws has the value Thrown, one whose behaviour is undefined has  *)
(* the value Undefined, and the others a record of kind "value".           *)
(***************************************************************************)
Thrown == [kind |-> "throw"]
Undefined == [kind |-> "undefined"]

\* Modulo(int lhs, int rhs) : % of C++ truncates towards zero (rem); the
\* operand of the second % is positive.
Modulo(lhs, rhs) ==
    LET rem == IF lhs >= 0 \/ lhs % rhs = 0 THEN lhs % rhs ELSE (lhs % rhs) - rhs
    IN  (rem + rhs) % rhs

\* InnerProduct
InnerProduct(lhs, rhs, prime) ==
    LET min_len == IF Len(lhs) <= Len(rhs) THEN Len(lhs) ELSE Len(rhs)
        RECURSIVE sum(_)
        sum(i) == IF i = 0 THEN 0 ELSE sum(i - 1) + lhs[i] * rhs[i]
    IN  Modulo(sum(min_len), prime)

\* MatrixProduct : the columns of the result are those of rhs[0].
MatrixProduct(lhs, rhs, prime) ==
    LET lhs_cols == Len(lhs[1])
        RECURSIVE cell(_, _, _)
        cell(i, j, k) == IF k = 0 THEN 0
                         ELSE Modulo(cell(i, j, k - 1) + lhs[i][k] * rhs[k][j], prime)
    IN  [i \in 1..Len(lhs) |-> [j \in 1..Len(rhs[1]) |-> cell(i, j, lhs_cols)]]

\* ModInverse : the extended algorithm of Euclid.
ModInverse(n, p) ==
    LET RECURSIVE loop(_, _, _, _)
        loop(t, new_t, r, new_r) ==
            IF new_r = 0 THEN <<t, r>>
            ELSE LET quotient == r \div new_r
                 IN  loop(new_t, t - quotient * new_t, new_r, r - quotient * new_r)
        end == loop(0, 1, p, n)
    IN  IF end[2] > 1 THEN Thrown
        ELSE [kind |-> "value", v |-> IF end[1] < 0 THEN end[1] + p ELSE end[1]]

\* ConstructEncodingMatrix : row a is 1, a, a^2, ... modulo p.
ConstructEncodingMatrix(m, n, p) ==
    LET RECURSIVE elt(_, _)
        elt(a, i) == IF i = 0 THEN 1 ELSE Modulo(elt(a, i - 1) * a, p)
    IN  [a \in 1..n |-> [i \in 1..m |-> elt(a, i - 1)]]

\* The int expression a * b + c.  The operands are split at bit 16 so that
\* no product leaves the range of the integers: v is the value that two's
\* complement arithmetic of 32 bits gives, fits says that the result is in
\* the range of int (an overflow of a signed int is undefined).
IntMulAdd(a, b, c) ==
    LET low == (a % 65536) * b + (c % 65536)
        high == (a \div 65536) * b + (c \div 65536) + (low \div 65536)
    IN  [fits |-> high >= -32768 /\ high <= 32767,
         v |-> (((high + 32768) % 65536) - 32768) * 65536 + (low % 65536)]

\* One row of the matrix el of ElementarySymmetricTransform as the inner
\* loop fills it: acc holds the columns 0..j-1 of row i, prev is row i - 1.
RECURSIVE ElementarySymmetricRow(_, _, _, _, _)
ElementarySymmetricRow(v, i, prev, j, acc) ==
    IF j > Len(v) THEN acc
    ELSE LET r == IF i = 1 THEN IntMulAdd(acc[j].v, 1, v[j])
                  ELSE IntMulAdd(prev[j].v, v[j], acc[j].v)
             e == IF j < i THEN [fits |-> TRUE, v |-> 0]
                  ELSE [fits |-> r.fits /\ prev[j].fits /\ acc[j].fits, v |-> r.v]
         IN  ElementarySymmetricRow(v, i, prev, j + 1, Append(acc, e))

\* The matrix el of ElementarySymmetricTransform, row by row as the loops
\* fill it: el[i][j] is the i-th elementary symmetric polynomial of the
\* first j values (row 0 is left at zero).  Row i is entry i + 1, column j
\* entry j + 1; fits says that no expression on the way to the entry
\* overflowed.
RECURSIVE ElementarySymmetricRows(_, _, _, _)
ElementarySymmetricRows(v, m, i, el) ==
    IF i > m THEN el
    ELSE ElementarySymmetricRows(v, m, i + 1,
             Append(el, ElementarySymmetricRow(v, i, el[i], 1, <<[fits |-> TRUE, v |-> 0]>>)))

ElementarySymmetricMatrix(v, m) ==
    ElementarySymmetricRows(v, m, 1, <<[j \in 1..(Len(v) + 1) |-> [fits |-> TRUE, v |-> 0]]>>)

\* ElementarySymmetricTransform : the value is the last column, entry i + 1
\* of the sequence for row i.
ElementarySymmetricTransform(v, m) ==
    LET el == ElementarySymmetricMatrix(v, m)
    IN  [i \in 1..(m + 1) |-> el[i][Len(v) + 1].v]

\* VandermondeInverse : the inverse modulo p of the matrix whose row i is
\* the powers of basis[i]; it throws when a denominator has no inverse.
VandermondeInverse(basis, p) ==
    LET m == Len(basis)
        el == ElementarySymmetricTransform(basis, m)
        RECURSIVE prod(_, _)
        prod(i, j) == IF j = 0 THEN 1
                      ELSE IF j = i THEN prod(i, j - 1)
                      ELSE Modulo(prod(i, j - 1) * (basis[i] - basis[j]), p)
        denominators == [i \in 1..m |-> prod(i, m)]
        \* the row before it is reversed, entry j + 1 for entry j
        RECURSIVE row(_, _, _)
        row(i, j, acc) ==
            IF j >= m THEN acc
            ELSE row(i, j + 1,
                     Append(acc, Modulo(IntMulAdd(el[j + 1], IF j % 2 = 1 THEN -1 ELSE 1,
                                                  Modulo(acc[j] * basis[i], p)).v, p)))
        numerators == [i \in 1..m |->
                          LET r == row(i, 1, <<1>>) IN [k \in 1..m |-> r[m - k + 1]]]
        inv == [i \in 1..m |-> ModInverse(denominators[i], p)]
        result == [i \in 1..m |-> [k \in 1..m |-> Modulo(numerators[i][k] * inv[i].v, p)]]
    IN  IF \E i \in 1..m : inv[i].kind = "throw" THEN Thrown
        ELSE [kind |-> "value", v |-> [i \in 1..m |-> [j \in 1..m |-> result[j][i]]]]

\* IDA::SplitToSegments : segments of m values, the last filled with zeros.
SplitToSegments(v, m) ==
    [s \in 1..((Len(v) + m - 1) \div m) |->
        [k \in 1..m |-> IF (s - 1) * m + k <= Len(v) THEN v[(s - 1) * m + k] ELSE 0]]

\* IDA::Encode : fragment i holds the inner products of row i of the
\* encoding matrix with the segments.
Encode(v, n, m, p) ==
    LET segments == SplitToSegments(v, m)
        encoding_matrix_ == ConstructEncodingMatrix(m, n, p)
    IN  [i \in 1..n |->
            [s \in 1..Len(segments) |-> InnerProduct(encoding_matrix_[i], segments[s], p)]]

\* IDA::Decode(encoded, frag_indices) : the segments are the columns of the
\* product; the segments of zeros at the end and the zeros at the end of
\* the last segment are removed.  back() of a vector without elements is
\* undefined.
Decode(encoded, frag_indices, m, p) ==
    IF Len(encoded) < m THEN Thrown
    ELSE LET first_m_frags == SubSeq(frag_indices, 1, m)
             inv_encoding_matrix == VandermondeInverse(first_m_frags, p)
         IN  IF inv_encoding_matrix.kind = "throw" THEN Thrown
             ELSE LET output_matrix == MatrixProduct(inv_encoding_matrix.v, encoded, p)
                      num_cols == Len(output_matrix[1])
                      num_rows == Len(output_matrix)
                      \* the segments one after the other
                      flat == [x \in 1..(num_cols * num_rows) |->
                                  output_matrix[((x - 1) % num_rows) + 1]
                                               [((x - 1) \div num_rows) + 1]]
                      nonzero == {x \in DOMAIN flat : flat[x] # 0}
                  IN  IF nonzero = {} THEN Undefined
                      ELSE [kind |-> "value",
                            v |-> SubSeq(flat, 1, CHOOSE x \in nonzero :
                                                      \A y \in nonzero : y <= x)]

\* The inputs of the coder: the bytes of a file or of a string.
Inputs ==
    LET Bytes == {0, 1, 255}
    IN  UNION {[1..l -> Bytes] : l \in 0..MaxInputLen}

\* The m fragments of a block that a reader has got hold of, by their
\* indices (DataBlock numbers the fragments from 1).
Choices == {c \in [1..IdaM -> 1..IdaN] : \A i, j \in 1..IdaM : i # j => c[i] # c[j]}

InitIda ==
    /\ InitRing /\ type_ = "DHashPeer"
    /\ \E v \in Inputs, c \in Choices : args = [v |-> v, frag_indices |-> c]
    /\ ret = <<>>

\* Encode, then Decode of the chosen fragments.  A call whose behaviour is
\* undefined ends in one of the ways it can end in: the process is stopped,
\* or the memory in front of the vector is read as a segment.
DecodeAction ==
    /\ ret = <<>>
    /\ LET encoded == Encode(args.v, IdaN, IdaM, IdaP)
           r == Decode([i \in 1..IdaM |-> encoded[args.frag_indices[i]]],
                       args.frag_indices, IdaM, IdaP)
       IN  IF r.kind = "undefined"
           THEN \E outcome \in {"crash", "stale"} : ret' = <<[kind |-> outcome]>>
           ELSE ret' = <<r>>
    /\ UNCHANGED <<ringvars, args>>

SpecIda == InitIda /\ [][DecodeAction]_vars

(***************************************************************************)
(* VandermondeInverse called with the indices of the fragments that a      *)
(* reader of a DHashPeer has: IdaDefaultM of the indices 1..IdaDefaultN.   *)
(***************************************************************************)
\* The indices of a set in increasing order.
RECURSIVE Ascending(_)
Ascending(indices) ==
    IF indices = {} THEN <<>>
    ELSE LET least == CHOOSE x \in indices : \A y \in indices : x <= y
         IN  <<least>> \o Ascending(indices \ {least})

InitVandermonde ==
    /\ InitRing /\ type_ = "DHashPeer"
    /\ \E indices \in SUBSET (1..IdaDefaultN) :
           /\ Cardinality(indices) = IdaDefaultM
           /\ args = [basis |-> Ascending(indices)]
    /\ ret = <<>>

\* An expression of ElementarySymmetricTransform leaves the range of int.
Overflows(basis) ==
    LET el == ElementarySymmetricMatrix(basis, Len(basis))
    IN  \E i \in DOMAIN el : \E j \in DOMAIN el[i] : ~ el[i][j].fits

\* The call of VandermondeInverse.  The overflow of a signed int is
\* undefined: the build wraps the value round, or it traps and the process
\* is stopped.
VandermondeInverseAction ==
    /\ ret = <<>>
    /\ IF Overflows(args.basis)
       THEN \E outcome \in {"wrap", "trap"} :
                ret' = <<IF outcome = "wrap" THEN VandermondeInverse(args.basis, IdaP)
                         ELSE [kind |-> "crash"]>>
       ELSE ret' = <<VandermondeInverse(args.basis, IdaP)>>
    /\ UNCHANGED <<ringvars, args>>

SpecVandermonde == InitVandermonde /\ [][VandermondeInverseAction]_vars

(***************************************************************************)
(* GenericKey: the operators and InBetween called on keys of their own.    *)
(***************************************************************************)
\* The calls: key1 + key2 and key1 - key2, and key.InBetween(lb, ub, true).
InitKeys ==
    /\ InitRing /\ type_ = "ChordPeer"
    /\ \/ \E key1, key2 \in 0 .. (keys_in_ring_ - 1) :
              args = <<"operators", key1, key2>>
       \/ \E key, lb, ub \in 0 .. (keys_in_ring_ - 1) :
              args = <<"InBetween", key, lb, ub>>
    /\ ret = <<>>

KeyOperatorsAction ==
    /\ ret = <<>>
    /\ args[1] = "operators"
    /\ ret' = <<[sum |-> KeyAdd(args[2], args[3]), diff |-> KeySub(args[2], args[3])]>>
    /\ UNCHANGED <<ringvars, args>>

InBetweenAction ==
    /\ ret = <<>>
    /\ args[1] = "InBetween"
    /\ ret' = <<InBetween(args[2], args[3], args[4], TRUE)>>
    /\ UNCHANGED <<ringvars, args>>

NextKeys == KeyOperatorsAction \/ InBetweenAction

SpecKeys == InitKeys /\ [][NextKeys]_vars

(***************************************************************************)
(* MerkleTree: the tree itself, nodes and all.  A node is a record of the  *)
(* members min_key_, max_key_, position_, child_nodes_, data_, hash_ and   *)
(* largest_key_ (NoKey for nullopt); key_len is ChordKey::BinaryLen() of   *)
(* the key type the tree is instantiated with.                             *)
(***************************************************************************)
\* MerkleTree(min_key, max_key, position): a leaf without entries.
MerkleNode(key_len, min_key, max_key, position) ==
    [key_len |-> key_len, min_key_ |-> min_key, max_key_ |-> max_key,
     position_ |-> position, child_nodes_ |-> <<>>, data_ |-> EmptyDb,
     hash_ |-> ZeroHash, largest_key_ |-> NoKey]

IsLeaf(node) == node.child_nodes_ = <<>>

\* MerkleTree::ChildNum : the index of the child that key goes to.
NodeChildNum(node, key) ==
    IF key >= node.max_key_ THEN num_children_ - 1
    ELSE IF key < node.min_key_ THEN 0
    ELSE LET shift == node.key_len - 3 * (Len(node.position_) + 1)
         IN  (key \div (2 ^ shift)) % num_children_

\* MerkleTree::Rehash : a leaf hashes the strings of its keys, an internal
\* node the hashes of its children; ChordKey(0) without keys.  The string
\* of the keys of a leaf and the string of the hashes of eight children are
\* different strings, which the marks "keys" and "hashes" stand for.
Rehash(node) ==
    IF IsLeaf(node)
    THEN [node EXCEPT !.hash_ = IF DOMAIN node.data_ = {} THEN ZeroHash
                                 ELSE Hash(<<"keys", ConcatKeys(DOMAIN node.data_)>>)]
    ELSE [node EXCEPT !.hash_ =
             IF \A i \in 1..num_children_ : node.child_nodes_[i].hash_ = ZeroHash
             THEN ZeroHash
             ELSE Hash(<<"hashes", [i \in 1..num_children_ |->
                                       node.child_nodes_[i].hash_]>>)]

\* The inner loop of CreateChildren: the entries at the front of data_ that
\* are in [lo, hi] move to the child.
RECURSIVE TakeKeys(_, _, _)
TakeKeys(keys, lo, hi) ==
    IF keys = {} THEN {}
    ELSE LET k == CHOOSE x \in keys : \A y \in keys : x <= y
         IN  IF InBetween(k, lo, hi, TRUE)
             THEN {k} \cup TakeKeys(keys \ {k}, lo, hi)
             ELSE {}

\* MerkleTree::CreateChildren : num_children_ leaves that divide the range
\* of the node, each with the entries of its part.
CreateChildren(node) ==
    LET key_range == node.max_key_ - node.min_key_
        RECURSIVE build(_, _, _)
        build(i, last_key, data) ==
            IF i = num_children_ THEN [children |-> <<>>, data |-> data]
            ELSE LET ub    == last_key + key_range \div num_children_
                     taken == TakeKeys(DOMAIN data, last_key, ub - 1)
                     child == Rehash([MerkleNode(node.key_len, last_key, ub,
                                                 node.position_ \o <<i>>)
                                      EXCEPT !.data_ = [k \in taken |-> data[k]]])
                     rest  == build(i + 1, ub, DbDelete(data, taken))
                 IN  [children |-> <<child>> \o rest.children, data |-> rest.data]
        built == build(0, node.min_key_, node.data_)
    IN  [node EXCEPT !.child_nodes_ = built.children, !.data_ = built.data]

\* MerkleTree() : the root, over all keys, with its children.
MerkleTree(key_len) == CreateChildren(MerkleNode(key_len, 0, 2 ^ key_len, <<>>))

\* MerkleTree::Insert : ok = FALSE is the exception "Key already exists",
\* which leaves largest_key_ of the nodes on the way as the call set them.
RECURSIVE Insert(_, _, _)
Insert(node, key, val) ==
    LET n1 == IF node.largest_key_ = NoKey \/ key > node.largest_key_
              THEN [node EXCEPT !.largest_key_ = key] ELSE node
    IN  IF IsLeaf(n1)
        THEN IF key \in DOMAIN n1.data_ THEN [ok |-> FALSE, t |-> n1]
             ELSE LET n2 == [n1 EXCEPT !.data_ = DbInsert(n1.data_, key, val)]
                      n3 == IF Cardinality(DOMAIN n2.data_) > num_children_
                            THEN CreateChildren(n2) ELSE n2
                  IN  [ok |-> TRUE, t |-> Rehash(n3)]
        ELSE LET i == NodeChildNum(n1, key) + 1
                 r == Insert(n1.child_nodes_[i], key, val)
                 n2 == [n1 EXCEPT !.child_nodes_[i] = r.t]
             IN  IF r.ok THEN [ok |-> TRUE, t |-> Rehash(n2)]
                 ELSE [ok |-> FALSE, t |-> n2]

\* MerkleTree::Update : ok = FALSE is the exception "Key does not exist".
RECURSIVE Update(_, _, _)
Update(node, key, val) ==
    IF IsLeaf(node)
    THEN IF key \in DOMAIN node.data_
         THEN [ok |-> TRUE,
               t |-> Rehash([node EXCEPT !.data_ = DbInsert(node.data_, key, val)])]
         ELSE [ok |-> FALSE, t |-> node]
    ELSE LET i == NodeChildNum(node, key) + 1
             r == Update(node.child_nodes_[i], key, val)
         IN  IF r.ok
             THEN [ok |-> TRUE, t |-> Rehash([node EXCEPT !.child_nodes_[i] = r.t])]
             ELSE [ok |-> FALSE, t |-> node]

\* MerkleTree::GetSmallestEntry : the key of the smallest entry of the
\* subtree, NoKey without one.
RECURSIVE GetSmallestEntry(_)
GetSmallestEntry(node) ==
    IF node.hash_ = ZeroHash THEN NoKey
    ELSE IF IsLeaf(node)
    THEN IF DOMAIN node.data_ = {} THEN NoKey
         ELSE CHOOSE x \in DOMAIN node.data_ : \A y \in DOMAIN node.data_ : x <= y
    ELSE LET RECURSIVE scan(_)
             scan(i) == IF i > num_children_ THEN NoKey
                        ELSE LET res == GetSmallestEntry(node.child_nodes_[i])
                             IN  IF res # NoKey THEN res ELSE scan(i + 1)
         IN  scan(1)

\* MerkleTree::GetLargestEntry
RECURSIVE GetLargestEntry(_)
GetLargestEntry(node) ==
    IF node.hash_ = ZeroHash THEN NoKey
    ELSE IF IsLeaf(node)
    THEN IF DOMAIN node.data_ = {} THEN NoKey
         ELSE CHOOSE x \in DOMAIN node.data_ : \A y \in DOMAIN node.data_ : x >= y
    ELSE LET RECURSIVE scan(_)
             scan(i) == IF i < 1 THEN NoKey
                        ELSE LET res == GetLargestEntry(node.child_nodes_[i])
                             IN  IF res # NoKey THEN res ELSE scan(i - 1)
         IN  scan(Len(node.child_nodes_))

\* MerkleTree::Delete : ok = FALSE is the exception "Key does not exist".
\* A leaf does not touch its largest_key_; an internal node sets it anew.
RECURSIVE Delete(_, _)
Delete(node, key) ==
    IF IsLeaf(node)
    THEN IF key \in DOMAIN node.data_
         THEN [ok |-> TRUE,
               t |-> Rehash([node EXCEPT !.data_ = DbDelete(node.data_, {key})])]
         ELSE [ok |-> FALSE, t |-> node]
    ELSE LET i == NodeChildNum(node, key) + 1
             r == Delete(node.child_nodes_[i], key)
             n2 == Rehash([node EXCEPT !.child_nodes_[i] = r.t])
         IN  IF r.ok
             THEN [ok |-> TRUE, t |-> [n2 EXCEPT !.largest_key_ = GetLargestEntry(n2)]]
             ELSE [ok |-> FALSE, t |-> node]

\* MerkleTree::Next : the key of the entry after key, the smallest one of
\* the tree when key is not below largest_key_ of the root (a comparison
\* that a root without largest_key_ passes); NoKey for nullopt.
RECURSIVE TreeNext(_, _)
\* Next without the return to the smallest entry at the root.
TreeNext_NoWrap(node, key) ==
    IF node.hash_ = ZeroHash THEN NoKey
    ELSE IF IsLeaf(node)
    THEN LET after == {k \in DOMAIN node.data_ : k > key}
         IN  IF after = {} THEN NoKey
             ELSE CHOOSE x \in after : \A y \in after : x <= y
    ELSE LET RECURSIVE scan(_)
             scan(i) == IF i > num_children_ THEN NoKey
                        ELSE LET next == TreeNext(node.child_nodes_[i], key)
                             IN  IF next # NoKey THEN next ELSE scan(i + 1)
         IN  scan(NodeChildNum(node, key) + 1)
TreeNext(node, key) ==
    IF node.hash_ = ZeroHash THEN NoKey
    ELSE IF (node.largest_key_ = NoKey \/ key >= node.largest_key_)
            /\ node.position_ = <<>>
    THEN GetSmallestEntry(node)
    ELSE IF IsLeaf(node)
    THEN LET after == {k \in DOMAIN node.data_ : k > key}
         IN  IF after = {} THEN NoKey
             ELSE CHOOSE x \in after : \A y \in after : x <= y
    ELSE LET RECURSIVE scan(_)
             scan(i) == IF i > num_children_ THEN NoKey
                        ELSE LET next == TreeNext(node.child_nodes_[i], key)
                             IN  IF next # NoKey THEN next ELSE scan(i + 1)
         IN  scan(NodeChildNum(node, key) + 1)

\* MerkleTree::ReadRange on a node of the tree; the result is the set of
\* the keys read.  A range whose bounds are under the same child goes to
\* that child as it is.
RECURSIVE TreeReadRange(_, _, _)
TreeReadRange(node, lower_bound, upper_bound) ==
    IF IsLeaf(node)
    THEN {k \in DOMAIN node.data_ : InBetween(k, lower_bound, upper_bound, TRUE)}
    ELSE LET lb_index == NodeChildNum(node, lower_bound)
             ub_index == NodeChildNum(node, upper_bound)
         IN  IF lb_index < ub_index
             THEN UNION {LET nth_child == node.child_nodes_[i + 1]
                             lower == IF lower_bound < nth_child.min_key_
                                      THEN nth_child.min_key_ ELSE lower_bound
                             upper == IF upper_bound > nth_child.max_key_
                                      THEN nth_child.max_key_ ELSE upper_bound
                         IN  TreeReadRange(nth_child, lower, upper)
                         : i \in lb_index..ub_index}
             ELSE IF lb_index > ub_index
             THEN TreeReadRange(node, 0, upper_bound)
                  \cup TreeReadRange(node, lower_bound, 2 ^ node.key_len - 1)
             ELSE TreeReadRange(node.child_nodes_[lb_index + 1],
                                lower_bound, upper_bound)

\* MerkleTree(Json::Value) of the Json::Value of a tree: every member of
\* every node but largest_key_, which is neither written nor read.
RECURSIVE FromJson(_)
FromJson(node) ==
    [node EXCEPT !.largest_key_ = NoKey,
                 !.child_nodes_ = [i \in 1..Len(node.child_nodes_) |->
                                       FromJson(node.child_nodes_[i])]]

\* MerkleTree::GetEntries
RECURSIVE GetEntries(_)
GetEntries(node) ==
    IF IsLeaf(node) THEN {<<k, node.data_[k]>> : k \in DOMAIN node.data_}
    ELSE UNION {GetEntries(node.child_nodes_[i]) : i \in 1..Len(node.child_nodes_)}

\* The calls on one tree: the tree is built as the tests build theirs, by
\* Insert of the keys 0, 1, ... one after the other, and then called up to
\* MaxMerkleCalls times with Insert, Update and Delete of the keys MerkleKeys
\* and of the values MerkleVals, and copied through JSON; args counts the
\* calls.
MerkleKeys == 0 .. MaxMerkleKey
MerkleVals == {"v", "w"}

RECURSIVE BuildTree(_)
BuildTree(n) ==
    IF n = 0 THEN MerkleTree(MerkleKeyLen)
    ELSE Insert(BuildTree(n - 1), n - 1, "v").t

InitMerkle ==
    /\ InitRing /\ type_ = "ChordPeer"
    /\ args = <<0>>
    /\ \E n \in 0 .. (MaxMerkleKey + 1) : ret = <<BuildTree(n)>>

InsertAction ==
    \E key \in MerkleKeys :
        /\ args[1] < MaxMerkleCalls
        /\ ret' = <<Insert(ret[1], key, "v").t>>
        /\ args' = <<args[1] + 1>>
        /\ UNCHANGED ringvars

UpdateAction ==
    \E key \in MerkleKeys, val \in MerkleVals :
        /\ args[1] < MaxMerkleCalls
        /\ ret' = <<Update(ret[1], key, val).t>>
        /\ args' = <<args[1] + 1>>
        /\ UNCHANGED ringvars

DeleteAction ==
    \E key \in MerkleKeys :
        /\ args[1] < MaxMerkleCalls
        /\ ret' = <<Delete(ret[1], key).t>>
        /\ args' = <<args[1] + 1>>
        /\ UNCHANGED ringvars

FromJsonAction ==
    /\ args[1] < MaxMerkleCalls
    /\ ret' = <<FromJson(ret[1])>>
    /\ args' = <<args[1] + 1>>
    /\ UNCHANGED ringvars

NextMerkle == InsertAction \/ UpdateAction \/ DeleteAction \/ FromJsonAction

SpecMerkle == InitMerkle /\ [][NextMerkle]_vars

(***************************************************************************)
(* Vocabulary of the properties.                                           *)
(***************************************************************************)
\* The peers of the ring that are up.
Live == {p \in PeerIds : phase[p] = "member" /\ server_[p]}

Keys == 0 .. (keys_in_ring_ - 1)

\* Clockwise distance from key a to key b.
Dist(a, b) == (b - a) % keys_in_ring_

\* The live peer whose id is the first at or after k clockwise.
LiveSuccessor(k) == CHOOSE p \in Live : \A q \in Live : Dist(k, p) <= Dist(k, q)

\* Every live peer has run Stabilize n times since the last StartChord,
\* Join, Leave or Fail.
StabilizedFor(n) == Live # {} /\ \A p \in Live : rounds[p] >= n

\* A Join, Leave or Fail has happened.
Churned == Cardinality({p \in PeerIds : phase[p] # "new"}) >= 2

LookupsCorrect ==
    \A p \in Live, k \in Keys :
        LET succ == GetSuccessor(World, p, k, MaxHops)
        IN  succ.ok /\ succ.v.id_ = LiveSuccessor(k)

(***************************************************************************)
(* C1: after a stabilize cycle with no joins, leaves or failures,          *)
(* GetSuccessor(k) at any live peer returns, for every key k, the live     *)
(* peer whose id is the first at or after k clockwise.                     *)
(***************************************************************************)
C1_LookupsCorrectAfterStabilize == StabilizedFor(1) => LookupsCorrect

(***************************************************************************)
(* C2: for every peer q, within one stabilize period after the last churn  *)
(* event (join, leave or failure), q.predecessor.id = q.min_key - 1.       *)
(***************************************************************************)
PredIsMinKeyMinusOne(q) ==
    /\ predecessor_[q] # NoPeer
    /\ predecessor_[q].id_ = (min_key_[q] - 1) % keys_in_ring_

C2_PredBelowMinKey ==
    (Churned /\ StabilizedFor(1)) => \A q \in Live : PredIsMinKeyMinusOne(q)

\* A ring of two live peers, one stabilize period after a peer left or failed.
C2_Witness ==
    /\ Churned /\ StabilizedFor(1)
    /\ \E p \in PeerIds : phase[p] \in {"left", "failed"}
    /\ Cardinality(Live) = 2
    /\ \A q \in Live : PredIsMinKeyMinusOne(q) /\ predecessor_[q].id_ # q

(***************************************************************************)
(* C3: when all peers but one have left the ring with Leave(), one after   *)
(* another, every key/value pair created before the leaves is read with    *)
(* its original value at the last remaining peer.                          *)
(***************************************************************************)
\* The peers that are gone have left with Leave, and no peer has joined
\* since the first of them left.
OnlyLeaves ==
    /\ ~ disturbed
    /\ \E p \in PeerIds : phase[p] = "left"
    /\ \A p \in PeerIds \ Live : phase[p] \in {"left", "new"}

LastPeer == CHOOSE p \in Live : TRUE

C3_KeysReadableAfterLeaves ==
    (Cardinality(Live) = 1 /\ OnlyLeaves) =>
        \A k \in DOMAIN created :
            LET r == Read(World, LastPeer, k, MaxHops)
            IN  r.ok /\ r.v = created[k]

(***************************************************************************)
(* C4: when NotifyHandler classifies the sender as the new predecessor,    *)
(* then on return the recipient's predecessor is the sender, its min_key   *)
(* is sender.id + 1, KEYS_TO_ABSORB of the response holds exactly the keys *)
(* that were stored in [old min_key, sender.id], and those keys are no     *)
(* longer stored locally.                                                  *)
(***************************************************************************)
\* The runs of NotifyHandler of the last step that took the branch
\* peer_is_pred and returned.
NotifiedFromPred ==
    {i \in 1..Len(notified) : notified[i].branch = "pred" /\ notified[i].returned}

KeysToTransfer(e) ==
    {k \in e.old_keys : InBetween(k, e.old_min, e.from.id_, TRUE)}

C4_NotifyFromPredPostcondition ==
    \A i \in NotifiedFromPred :
        LET e == notified[i]
        IN  /\ e.pred_ret = e.from
            /\ e.min_ret = KeyAdd(e.from.id_, 1)
            /\ e.resp = KeysToTransfer(e)
            /\ e.keys_ret \cap KeysToTransfer(e) = {}

(***************************************************************************)
(* C5: if a Notify arrives while the recipient's current predecessor is    *)
(* dead, the recipient runs HandleNotifyFromPred for the sender and then   *)
(* HandlePredFailure on the old (dead) predecessor, so that Rectify is     *)
(* started for the dead peer; for ChordPeer and for DHashPeer.             *)
(***************************************************************************)
\* The runs of NotifyHandler of the last step that found the predecessor
\* dead and got to HandlePredFailure.
NotifiedWithDeadPred ==
    {i \in 1..Len(notified) :
        notified[i].branch = "dead_pred" /\ notified[i].rect_of # NoPeer}

C5_RectifyForDeadPredecessor ==
    \A i \in NotifiedWithDeadPred :
        LET e == notified[i]
        IN  /\ e.rect_of = e.old_pred
            /\ e.rect_started

(***************************************************************************)
(* C6: GetSuccessor(k) returns the local peer whenever k lies in           *)
(* [self.min_key, self.id] (clockwise, inclusive), whatever the finger     *)
(* table and the successor list hold.                                      *)
(***************************************************************************)
\* k is on the clockwise arc from the min_key_ of p to the id of p.
InOwnRange(p, k) == Dist(min_key_[p], k) <= Dist(min_key_[p], p)

C6_LocalKeyReturnsSelf ==
    \A p \in PeerIds, k \in Keys :
        InOwnRange(p, k) =>
            LET succ == GetSuccessor(World, p, k, MaxHops)
            IN  succ.ok /\ succ.v = ToRemotePeer(World, p)

\* A peer owns a key for which its finger table names another peer, and
\* GetSuccessor answers with the peer itself.
C6_Witness ==
    \E p \in Live, k \in Keys :
        /\ InOwnRange(p, k)
        /\ FingerLookupIndex(finger_table_[p], k) # 0
        /\ finger_table_[p][FingerLookupIndex(finger_table_[p], k)].successor_.id_ # p
        /\ successors_[p] # <<>>
        /\ GetSuccessor(World, p, k, MaxHops).v.id_ = p

(***************************************************************************)
(* C7: GetNSuccessors(k, n) returns a list of at most n peers whose ids    *)
(* are pairwise distinct, for every k, every n and every ring size (also   *)
(* for rings with fewer than n peers).                                     *)
(***************************************************************************)
\* The values of n: up to the number of peers there are.
Counts == 0 .. MaxCount

DistinctIds(list) ==
    \A i, j \in 1..Len(list) : list[i].id_ = list[j].id_ => i = j

C7_NSuccessorsDistinct ==
    \A p \in Live, k \in Keys, n \in Counts :
        LET succs == GetNSuccessors(World, p, k, n, MaxHops)
        IN  succs.ok => (Len(succs.v) <= n /\ DistinctIds(succs.v))

\* In a ring of two peers a call with n = 3 returns the two peers.
C7_Witness ==
    /\ Cardinality(Live) = 2
    /\ \E p \in Live, k \in Keys :
           LET succs == GetNSuccessors(World, p, k, 3, MaxHops)
           IN  /\ succs.ok
               /\ Len(succs.v) = 2
               /\ {succs.v[i].id_ : i \in 1..2} = Live

(***************************************************************************)
(* C8: in a single-node ring (after StartChord, no predecessor set) a call *)
(* of Stabilize completes without error and changes no state of the peer.  *)
(***************************************************************************)
\* p has started the ring and no other peer has joined it.
SingleNodeRing(p) ==
    /\ phase[p] = "member"
    /\ \A q \in PeerIds \ {p} : phase[q] = "new"
    /\ predecessor_[p] = NoPeer

C8_SingleNodeStabilizeIsNoOp ==
    \A p \in PeerIds, ub \in {"crash", "stale"} :
        SingleNodeRing(p) =>
            LET r == Stabilize(World, p, ub, MaxHops)
            IN  r.ok /\ PeerState(r.w) = PeerState(World)

(***************************************************************************)
(* C9: for every peer q, within one stabilize period in which no further   *)
(* failure occurs, the successor list of q has at most K entries, every    *)
(* entry is alive, and the entries are ordered clockwise starting from     *)
(* q.id + 1.                                                               *)
(***************************************************************************)
\* The entries of the list come in strictly increasing clockwise distance
\* from starting_key.
OrderedClockwise(list, starting_key) ==
    \A i, j \in 1..Len(list) :
        i < j => Dist(starting_key, list[i].id_) < Dist(starting_key, list[j].id_)

SuccessorListGood(q) ==
    /\ Len(successors_[q]) <= num_succs_
    /\ \A i \in 1..Len(successors_[q]) : IsAlive(World, successors_[q][i])
    /\ OrderedClockwise(successors_[q], KeyAdd(q, 1))

C9_SuccessorListAfterStabilize ==
    StabilizedFor(1) => \A q \in Live : SuccessorListGood(q)

(***************************************************************************)
(* C10: the successor list always holds pairwise distinct ids in strictly  *)
(* increasing clockwise order from self_id + 1, after any sequence of      *)
(* Insert, Delete and Populate calls made by the protocol.                 *)
(***************************************************************************)
C10_SuccessorListOrdered ==
    \A q \in PeerIds :
        /\ DistinctIds(successors_[q])
        /\ OrderedClockwise(successors_[q], KeyAdd(q, 1))

(***************************************************************************)
(* C11: UpdateSuccList adds to the successor list every live peer that     *)
(* lies between consecutive existing entries, fills the list up to         *)
(* capacity by extending forward from the tail, and never inserts the      *)
(* local peer itself.                                                      *)
(***************************************************************************)
EntryIds(list) == {list[i].id_ : i \in 1..Len(list)}

\* q lies strictly between two consecutive entries of the list of p, the
\* first entry being preceded by p itself.
BetweenEntries(p, list, q) ==
    \E i \in 1..Len(list) :
        LET prev == IF i = 1 THEN p ELSE list[i - 1].id_
        IN  /\ q # prev /\ q # list[i].id_
            /\ Dist(prev, q) < Dist(prev, list[i].id_)

\* q is in the list, or the list is full of peers that come before q.
AddedOrEvicted(p, list, q) ==
    \/ q \in EntryIds(list)
    \/ /\ Len(list) = num_succs_
       /\ \A e \in EntryIds(list) : Dist(p, e) < Dist(p, q)

UpdateSuccListPostcondition(p, old, new) ==
    /\ \A q \in Live \ {p} : BetweenEntries(p, old, q) => AddedOrEvicted(p, new, q)
    /\ Len(new) = num_succs_ \/ (Live \ {p}) \subseteq EntryIds(new)
    /\ p \notin EntryIds(old) => p \notin EntryIds(new)

C11_UpdateSuccListFillsList ==
    \A p \in Live :
        successors_[p] # <<>> =>
            LET r == UpdateSuccList(World, p, MaxHops)
            IN  r.ok => UpdateSuccListPostcondition(p, successors_[p],
                                                    r.w.successors_[p])

C13_LeaveJoinsMaintenance ==
    \A p \in PeerIds :
        phase[p] = "left" =>
            /\ ~ server_[p]
            /\ stabilize_thread_[p] = "finished"

(***************************************************************************)
(* C14: The CREATE_KEY handler returns an error and stores nothing when    *)
(* the requested key is not in the recipient's local range [min_key, id];  *)
(* this holds for the handler of every peer type.                          *)
(***************************************************************************)
\* The last CREATE_KEY request was for a key outside of the range that the
\* recipient had.
KeyOutOfRange == ret # <<>> /\ ~ InBetween(args.key, args.min_key_, args.id_, TRUE)

\* The request was refused and the database of the recipient is as it was.
RefusedAndNothingStored == ~ ret[1].SUCCESS /\ ret[1].db_ = args.db_

C14_OutOfRangeKeyRefused == KeyOutOfRange => RefusedAndNothingStored

\* C14 as the code has it: the handler of ChordPeer refuses a key outside
\* of its range and stores nothing; the handler of DHashPeer does not look
\* at the range: it refuses exactly the keys it already stores and stores
\* the fragment of every other key.
C14_OutOfRangeKeyRefusedByChordPeer ==
    KeyOutOfRange =>
        IF type_ = "ChordPeer" THEN RefusedAndNothingStored
        ELSE IF args.key \in DOMAIN args.db_ THEN RefusedAndNothingStored
        ELSE /\ ret[1].SUCCESS
             /\ ret[1].db_ = DbInsert(args.db_, args.key, args.val)

\* A ChordPeer with a predecessor has refused a key outside of its range.
C14_Witness ==
    /\ KeyOutOfRange
    /\ type_ = "ChordPeer"
    /\ args.min_key_ # KeyAdd(args.id_, 1)
    /\ ~ ret[1].SUCCESS

(***************************************************************************)
(* C15: If two Create calls for the same key run concurrently (from the    *)
(* same or different peers), at most one of them returns success.          *)
(***************************************************************************)
\* The calls c and d have returned, they were inside Create at the same
\* time and they were for the same key.
RanConcurrently(c, d) ==
    /\ c # d
    /\ calls[c].pc = "done"
    /\ calls[d].pc = "done"
    /\ calls[c].key = calls[d].key
    /\ c \in calls[d].with \/ d \in calls[c].with

C15_OneConcurrentCreateSucceeds ==
    \A c, d \in Clients :
        RanConcurrently(c, d) => ~ (calls[c].success /\ calls[d].success)

(***************************************************************************)
(* C16: DHash Create counts the successors that acknowledged their         *)
(* fragment and returns an error exactly when fewer than m fragments were  *)
(* stored; a successor that rejects or fails its CREATE_KEY only lowers    *)
(* the count and does not stop the placement on the remaining successors.  *)
(***************************************************************************)
\* The peers that the last Create call gave a fragment of its key.
StoredBy == {q \in PeerIds : args.key \in DOMAIN ret[1].db_[q]
                              /\ args.key \notin DOMAIN args.db_[q]}

\* The successors of the key that were running and had no fragment of it
\* when the call was made: the ones that neither reject nor fail.
Accepting == {q \in PeerIds : /\ \E i \in DOMAIN args.succ_list : args.succ_list[i].id_ = q
                               /\ args.server_[q]
                               /\ args.key \notin DOMAIN args.db_[q]}

C16_CreateCountsAcknowledgements ==
    ret # <<>> =>
        /\ ~ ret[1].returned <=> Cardinality(StoredBy) < m_
        /\ Len(args.succ_list) >= m_ => Accepting \subseteq StoredBy

(***************************************************************************)
(* C19: After peer A runs Synchronize(B, [A.min_key, A.id]) against a peer *)
(* B whose database is empty or a subset of A's, B's database root hash    *)
(* equals A's database root hash.                                          *)
(***************************************************************************)
\* The peers whose servers run.
Running == {p \in PeerIds : phase[p] = "member" /\ server_[p]}

\* The results of Synchronize(b, [a.min_key, a.id]) called at a in the
\* current state, for every draw of std::sample (it is called once for a
\* missing key at most).
SynchronizeResults(a, b) ==
    LET run(rand) == Synchronize(WithRand(World, rand), a, ToRemotePeer(World, b),
                                 <<min_key_[a], a>>, MaxHops)
        first == run([i \in 1..MaxSamples |-> 1])
    IN  IF Len(first.w.rand) = MaxSamples THEN {first}
        ELSE {run(rand) : rand \in Samples}

\* The database of b has no key that the database of a has not.
SubsetOf(b, a) == DOMAIN db_[b] \subseteq DOMAIN db_[a]

AllKeysInRange(a) ==
    \A k \in DOMAIN db_[a] : InBetween(k, min_key_[a], a, TRUE)

LocalMaintenanceResults(p) ==
    LET run(rand) == RunLocalMaintenance(WithRand(World, rand), p, MaxHops)
        first == run([i \in 1..MaxSamples |-> 1])
    IN  IF Len(first.w.rand) = MaxSamples THEN {first}
        ELSE {run(rand) : rand \in Samples}

\* The entries of the successor list of p that are running peers other
\* than p.
LiveSuccessors(p) ==
    {successors_[p][i].id_ : i \in DOMAIN successors_[p]} \cap (Running \ {p})

C20_LocalMaintenanceReachesLiveSuccessors ==
    \A p \in Running :
        DOMAIN db_[p] # {} =>
            \A r \in LocalMaintenanceResults(p) :
                LiveSuccessors(p) \subseteq {r.w.synced[i] : i \in DOMAIN r.w.synced}


(***************************************************************************)
(* C18: After one pass of global maintenance at a peer, every local key k  *)
(* for which the peer is among GetNSuccessors(k, n) is still stored        *)
(* locally, and every local key for which it is not has been pushed to a   *)
(* successor lacking it and removed from the local database.               *)
(***************************************************************************)
\* The ids of GetNSuccessors(k, n_) asked at p in the current state.
ReplicaIds(p, k) ==
    LET s == GetNSuccessors(World, p, k, n_, MaxHops)
    IN  IF s.ok THEN {s.v[i].id_ : i \in DOMAIN s.v} ELSE {}

\* Key k, which p stores, is not for p to hold.
Misplaced(p, k) ==
    /\ k \in DOMAIN db_[p]
    /\ GetNSuccessors(World, p, k, n_, MaxHops).ok
    /\ p \notin ReplicaIds(p, k)

\* Key k of p has gone from p to a successor of k that had no fragment of it.
PushedAndRemoved(g, p, k) ==
    /\ k \notin DOMAIN g.w.db_[p]
    /\ \E q \in ReplicaIds(p, k) :
           k \notin DOMAIN db_[q] /\ k \in DOMAIN g.w.db_[q]

C18_GlobalMaintenanceMovesMisplacedKeys ==
    \A p \in Running :
        LET g == RunGlobalMaintenance(World, p, MaxHops)
        IN  g.ok =>
                \A k \in DOMAIN db_[p] :
                    /\ p \in ReplicaIds(p, k) => k \in DOMAIN g.w.db_[p]
                    /\ Misplaced(p, k) => PushedAndRemoved(g, p, k)


(***************************************************************************)
(* C17: For every key stored by a successful DHash Create, no later than   *)
(* one maintenance cycle after the last churn event, at least m of the     *)
(* key's n immediate successors hold a fragment whose index equals the     *)
(* holder's clockwise position in the replica set.                         *)
(***************************************************************************)
\* The number of running peers that are met clockwise from key k before q.
Before(k, q) ==
    Cardinality({r \in Running :
                    (r - k + keys_in_ring_) % keys_in_ring_
                        < (q - k + keys_in_ring_) % keys_in_ring_})

\* The n immediate successors of key k among the running peers.
ReplicaSet(k) == {q \in Running : Before(k, q) < n_}

\* Peer q holds the fragment of k whose index is the position of q in the
\* replica set of k; DataBlock numbers the fragments from 1, and Create
\* gives fragment j to the j-th successor.
HoldsOwnFragment(k, q) ==
    k \in DOMAIN db_[q] /\ db_[q][k].index_ = Before(k, q) + 1

\* Every running peer has been through a round of MaintenanceLoop since
\* the last peer started, joined or failed.
CycleAfterChurn ==
    \A p \in Running : maintenance[p] /\ rounds[p] >= MaxDHashRounds

\* The running peers still hold m fragments of k with different indices:
\* the failures have not destroyed the block.
Recoverable(k) ==
    Cardinality({db_[q][k].index_ : q \in {r \in Running : k \in DOMAIN db_[r]}}) >= m_

C17_FragmentsAtTheirPositionAfterCycle ==
    CycleAfterChurn =>
        \A k \in DOMAIN created :
            Recoverable(k) =>
                Cardinality({q \in ReplicaSet(k) : HoldsOwnFragment(k, q)}) >= m_


(***************************************************************************)
(* C21: An error raised inside one maintenance iteration (stabilize,       *)
(* global or local maintenance) does not end the maintenance loop: the     *)
(* loop runs its next iteration after the sleep, and stops only when the   *)
(* cancel flag is set.                                                     *)
(***************************************************************************)
\* The results of one round of MaintenanceLoop of p in the current state,
\* for every draw of std::sample and every outcome of the read past the end
\* of the emptied successor list.
MaintenanceResults(p) ==
    LET run(rand, ub) == DHashMaintenance(WithRand(World, rand), p, ub, MaxHops)
        first(ub) == run([i \in 1..MaxSamples |-> 1], ub)
    IN  UNION {IF Len(first(ub).w.rand) = MaxSamples THEN {first(ub)}
               ELSE {run(rand, ub) : rand \in Samples} : ub \in {"crash", "stale"}}

\* The round of p with result r has not come to an end: a walk of it goes
\* on for ever (nothing is raised, and the server of p still runs).
NeverEnds(r, p) == r.w.server_[p] /\ ~ r.w.maintenance[p]

C21_MaintenanceLoopSurvivesErrors ==
    \A p \in Running :
        maintenance[p] =>
            \A r \in MaintenanceResults(p) :
                (~ r.ok /\ ~ NeverEnds(r, p)) =>
                    r.w.server_[p] /\ r.w.maintenance[p]


(***************************************************************************)
(* C22: For every input sequence v and every choice of m distinct rows of  *)
(* Encode(v) together with their indices, Decode returns exactly v.        *)
(***************************************************************************)
C22_DecodeReturnsTheInput ==
    ret # <<>> => ret[1] = [kind |-> "value", v |-> args.v]


(***************************************************************************)
(* C23: For all identifiers a and b, sub(a, b) equals (a - b + N) mod N    *)
(* and add(a, b) equals (a + b) mod N, so every result lies in [0, N),     *)
(* including sub(a, a) = 0.                                                *)
(***************************************************************************)
C23_KeyOperatorsAreModular ==
    (ret # <<>> /\ args[1] = "operators") =>
        /\ ret[1].diff = (args[2] - args[3] + keys_in_ring_) % keys_in_ring_
        /\ ret[1].sum = (args[2] + args[3]) % keys_in_ring_

(***************************************************************************)
(* C24: For all identifiers k, lo, hi, in_between(k, lo, hi, inclusive =   *)
(* true) is true exactly when k lies on the clockwise arc from lo to hi    *)
(* with both endpoints included.                                           *)
(***************************************************************************)
\* k is met on the way from lo clockwise to hi, the ends included.
OnArc(k, lo, hi) == Dist(lo, k) <= Dist(lo, hi)

C24_InBetweenIsTheClockwiseArc ==
    (ret # <<>> /\ args[1] = "InBetween") =>
        (ret[1] <=> OnArc(args[2], args[3], args[4]))

\* A call with a range that passes key 0 and a key on it beyond key 0.
C24_Witness ==
    /\ ret # <<>> /\ args[1] = "InBetween"
    /\ args[3] > args[4] /\ args[2] < args[4]
    /\ ret[1]


\* C25: the hash of the root depends on the entries alone: the tree that a
\* sequence of Insert, Update and Delete left has the hash of the tree that
\* the same entries are inserted into one after the other.
InsertAll(node, entries) ==
    LET RECURSIVE ins(_, _)
        ins(t, keys) ==
            IF keys = {} THEN t
            ELSE LET k == CHOOSE x \in keys : \A y \in keys : x <= y
                     e == CHOOSE x \in entries : x[1] = k
                 IN  ins(Insert(t, k, e[2]).t, keys \ {k})
    IN  ins(node, {e[1] : e \in entries})

C25_RootHashDependsOnEntriesOnly ==
    ret[1].hash_ = InsertAll(MerkleTree(MerkleKeyLen), GetEntries(ret[1])).hash_


\* C26: Update of a stored key to another value than the stored one changes
\* the hash of the root.
C26_UpdateChangesRootHash ==
    [][\A key \in MerkleKeys, val \in MerkleVals :
           ( /\ \E e \in GetEntries(ret[1]) : e[1] = key /\ e[2] # val
             /\ ret' = <<Update(ret[1], key, val).t>> )
           => ret'[1].hash_ # ret[1].hash_]_vars

\* C28: Next of the largest stored key is the smallest stored key, in every
\* tree that Insert, Update, Delete and the copy through JSON lead to.
StoredKeys(node) == {e[1] : e \in GetEntries(node)}

C28_NextOfLargestIsSmallest ==
    LET keys == StoredKeys(ret[1])
    IN  keys # {} =>
            \A largest \in keys : (\A k \in keys : k <= largest) =>
                /\ TreeNext(ret[1], largest) \in keys
                /\ \A k \in keys : TreeNext(ret[1], largest) <= k

\* A tree rebuilt from JSON (no largest_key_ at the root) with several
\* entries, a leaf of which was divided.
C28_Witness ==
    /\ ret[1].largest_key_ = NoKey
    /\ Cardinality(StoredKeys(ret[1])) >= 2
    /\ \E i \in 1..num_children_ : ~ IsLeaf(ret[1].child_nodes_[i])
    /\ TreeNext(ret[1], MaxMerkleKey) \in StoredKeys(ret[1])


\* C27: ReadRange(lo, hi) with lo > hi reads the stored keys of [lo, N - 1]
\* and of [0, hi], whatever the shape of the tree.
C27_WrappedReadRangeReadsBothArcs ==
    \A lo, hi \in MerkleKeys :
        lo > hi =>
            TreeReadRange(ret[1], lo, hi)
                = {k \in StoredKeys(ret[1]) : k >= lo \/ k <= hi}


\* C29: on the successor list of a running peer, LookupLiving(k) is the
\* entry that Lookup(k) finds when that entry is alive, otherwise the first
\* alive entry after it in the list, going round; it is nothing only when
\* no entry of the list is alive.
NextAlive(list, i) ==
    LET alive == {j \in 1..Len(list) : IsAlive(World, list[j])}
    IN  CHOOSE j \in alive :
            \A h \in alive : (j - i) % Len(list) <= (h - i) % Len(list)

C29_LookupLivingSkipsDeadEntries ==
    \A p \in Running, key \in Keys :
        LET list  == successors_[p]
            i     == ListLookup(list, p, key)
            alive == {j \in 1..Len(list) : IsAlive(World, list[j])}
            found == LookupLiving(World, list, p, key)
        IN  i # 0 =>
                /\ IsAlive(World, list[i]) => found = list[i]
                /\ (~ IsAlive(World, list[i]) /\ alive # {})
                       => found = list[NextAlive(list, i)]
                /\ found = NoPeer => alive = {}


\* C30 as stated: AdjustFingers(p), which LeaveHandler calls with NEW_SUCC,
\* sets the successor of the fingers whose lower bound is in
\* (p.min_key, p.id] to p and leaves every other finger as it was.
AdjustedOn(arc) ==
    LET p == args.request.NEW_SUCC
    IN  \A i \in 1..Len(args.table_) :
            ret[1][i] = IF args.table_[i].lower_bound_ \in arc
                        THEN [args.table_[i] EXCEPT !.successor_ = p]
                        ELSE args.table_[i]

C30_AdjustFingersHalfOpenArc ==
    (ret # <<>> /\ "NEW_SUCC" \in DOMAIN args.request) =>
        LET p == args.request.NEW_SUCC
            halfOpen == {k \in Keys : OnArc(k, p.min_key_, p.id_)} \ {p.min_key_}
        IN  AdjustedOn(halfOpen)

\* C30, amended: the fingers are those whose lower bound is in
\* [p.min_key, p.id], both ends included.
C30_AdjustFingersClosedArc ==
    (ret # <<>> /\ "NEW_SUCC" \in DOMAIN args.request) =>
        LET p == args.request.NEW_SUCC
            closed == {k \in Keys : OnArc(k, p.min_key_, p.id_)}
        IN  AdjustedOn(closed)

\* A call that replaces the finger whose lower bound is p.min_key and the
\* finger whose lower bound is p.id, and leaves another finger alone.
C30_Witness ==
    /\ ret # <<>> /\ "NEW_SUCC" \in DOMAIN args.request
    /\ LET p == args.request.NEW_SUCC
       IN  /\ \E i \in 1..Len(args.table_) :
                  /\ args.table_[i].lower_bound_ = p.min_key_
                  /\ args.table_[i].successor_ # p
                  /\ ret[1][i].successor_ = p
           /\ \E i \in 1..Len(args.table_) :
                  /\ args.table_[i].lower_bound_ = p.id_
                  /\ ret[1][i].successor_ = p
           /\ \E i \in 1..Len(args.table_) :
                  /\ ret[1][i] = args.table_[i]
                  /\ ret[1][i].successor_ # p


(***************************************************************************)
(* C31: in every state that StartChord, Join and Leave calls (and the      *)
(* rounds of the maintenance loops) lead to, every key of the ring is in   *)
(* the range [min_key, id] of exactly one live peer.                       *)
(***************************************************************************)
OnlyJoinsAndLeaves == \A p \in PeerIds : phase[p] \in {"new", "member", "left"}

OwnersOf(k) == {p \in Live : InBetween(k, min_key_[p], p, TRUE)}

C31_RangesPartitionTheRing ==
    (OnlyJoinsAndLeaves /\ Live # {}) =>
        \A k \in Keys : Cardinality(OwnersOf(k)) = 1


(***************************************************************************)
(* C32: every key that a run of NotifyHandler removed from the database of *)
(* a ChordPeer is in KEYS_TO_ABSORB of the response of that run, whatever  *)
(* branch the handler took.                                                *)
(***************************************************************************)
RemovedByNotify(e) == e.old_keys \ e.keys_ret

C32_NotifyReturnsRemovedKeys ==
    \A i \in 1..Len(notified) :
        notified[i].returned => RemovedByNotify(notified[i]) \subseteq notified[i].resp


(***************************************************************************)
(* C33: when Leave returns at a peer whose first finger still names its    *)
(* old successor although a live peer has joined in between, every key the *)
(* leaver held is stored at a live peer afterwards.                        *)
(***************************************************************************)
\* A live peer lies between p and the successor that p knows.
UnknownSuccessor(p) ==
    /\ finger_table_[p] # <<>>
    /\ \E n \in Live \ {p} :
           LET succ == finger_table_[p][1].successor_.id_
           IN  n # succ /\ Dist(p, n) < Dist(p, succ)

LeaveReturned(p) == phase[p] = "member" /\ phase'[p] = "left"

C33_LeaveKeepsKeysWithUnknownSuccessor ==
    [][\A p \in PeerIds :
           (UnknownSuccessor(p) /\ LeaveReturned(p)) =>
               \A k \in DOMAIN db_[p] :
                   \E q \in PeerIds :
                       phase'[q] = "member" /\ server_'[q] /\ k \in DOMAIN db_'[q]]_vars


(***************************************************************************)
(* C34: when no handler is in progress at a ChordPeer, every key of its    *)
(* database is in its range [min_key, id]; the handlers of CREATE_KEY run  *)
(* while new predecessors join and notify.                                 *)
(***************************************************************************)
HandlerInProgress(q) == \E c \in Clients : calls[c].pc = "insert" /\ calls[c].p = q

C34_StoredKeysInRange ==
    \A q \in Live :
        ~ HandlerInProgress(q) =>
            \A k \in DOMAIN db_[q] : InBetween(k, min_key_[q], q, TRUE)


(***************************************************************************)
(* C35: when the predecessor of a live peer has failed and the membership  *)
(* changes no more (every peer has joined, the one change of membership of *)
(* the ring is spent), the rounds of Stabilize bring the peer to a state   *)
(* in which predecessor_ names the nearest live peer counter-clockwise and *)
(* min_key_ is the key after it.  The rounds are the only steps left, so a *)
(* state that no round of any peer changes is the state the ring stays in: *)
(* in such a state the predecessor has been replaced.                      *)
(***************************************************************************)
PredecessorDead(p) ==
    p \in Live /\ predecessor_[p] # NoPeer /\ ~ IsAlive(World, predecessor_[p])

\* No Join, Leave or Fail can follow: only rounds of Stabilize are left.
NoFurtherChurn ==
    /\ churn >= MaxLookupChurn
    /\ \A q \in PeerIds : phase[q] \in {"member", "failed"}

PredecessorFailed(p) ==
    /\ PredecessorDead(p)
    /\ phase[PeerOf(predecessor_[p])] = "failed"
    /\ NoFurtherChurn

\* The live peer before p, p itself when it is the only one.
LivePredecessor(p) ==
    CHOOSE q \in Live : \A r \in Live :
        (IF q = p THEN keys_in_ring_ ELSE Dist(q, p))
            <= (IF r = p THEN keys_in_ring_ ELSE Dist(r, p))

PredecessorRepaired(p) ==
    /\ predecessor_[p] # NoPeer
    /\ IsAlive(World, predecessor_[p])
    /\ predecessor_[p].id_ = LivePredecessor(p)
    /\ min_key_[p] = KeyAdd(predecessor_[p].id_, 1)

\* No round of Stabilize of any peer changes the state: the rounds that
\* follow, however many, leave it as it is.
StabilizeChangesNothing ==
    \A q \in PeerIds :
        maintenance[q] =>
            \A ub \in {"crash", "stale"} :
                PeerState(Stabilize(World, q, ub, MaxHops).w) = PeerState(World)

C35_DeadPredecessorIsReplaced ==
    \A p \in PeerIds :
        (PredecessorFailed(p) /\ StabilizeChangesNothing) => PredecessorRepaired(p)


(***************************************************************************)
(* C36: no round of Stabilize reads entry 0 of an emptied successor list:  *)
(* when the list of a peer is not empty and every entry of it is dead, the *)
(* loop that deletes the dead heads does not end with the list empty and   *)
(* GetNthEntry(0) called on it.                                            *)
(***************************************************************************)
\* The round of Stabilize that p would run now reaches the while loop with
\* a list that is not empty and leaves it only by GetNthEntry(0) of the
\* emptied list.
StabilizeReadsEmptyList(p) ==
    /\ predecessor_[p] # NoPeer
    /\ LET hp == IF IsAlive(World, predecessor_[p]) THEN Ok(World, NoPeer)
                 ELSE HandlePredFailure(World, p, predecessor_[p], MaxHops)
       IN  /\ hp.ok
           /\ hp.w.successors_[p] # <<>>
           /\ DropDeadHead(hp.w, hp.w.successors_[p]) = <<>>

C36_StabilizeNeverReadsEmptyList ==
    \A p \in PeerIds : maintenance[p] => ~ StabilizeReadsEmptyList(p)


(***************************************************************************)
(* C37: RunGlobalMaintenance called at a running peer comes back, whatever *)
(* the database of the peer holds and whatever the ring is: its while loop *)
(* does not go on for ever, also when the first key after id_ is sent to   *)
(* its successors and deleted while the peer keeps other keys.             *)
(***************************************************************************)
\* The call at p never returns: the loop is still running after MaxKeyWalk
\* iterations and the maintenance thread of p stays in it.
GlobalMaintenanceHangs(p) ==
    LET g == RunGlobalMaintenance(World, p, MaxHops)
    IN  ~ g.ok /\ maintenance[p] /\ ~ g.w.maintenance[p] /\ g.w.server_[p]

C37_GlobalMaintenanceTerminates ==
    \A p \in Running : ~ GlobalMaintenanceHangs(p)


(***************************************************************************)
(* C38: the walk of UpdateSuccList backwards over GetPred ends in every    *)
(* state of the ring, also when the predecessors it meets lead neither to  *)
(* the entry before nor to the peer itself: a round of Stabilize of a      *)
(* running peer does not stay in the while(true) loop for ever.            *)
(***************************************************************************)
\* The round of Stabilize that p would run now never returns.  The read of
\* an emptied successor list is taken to end the process, so the one loop
\* left in which the thread can stay is the walk of UpdateSuccList.
UpdateSuccListHangs(p) ==
    LET r == Stabilize(World, p, "crash", MaxHops)
    IN  ~ r.ok /\ maintenance[p] /\ ~ r.w.maintenance[p] /\ r.w.server_[p]

C38_PredWalkTerminates ==
    \A p \in Running : ~ UpdateSuccListHangs(p)


(***************************************************************************)
(* C39: for every set of IdaDefaultM of the indices 1..IdaDefaultN and the *)
(* prime 257, no expression of ElementarySymmetricTransform and            *)
(* VandermondeInverse leaves the range of a signed int of 32 bits, and the *)
(* matrix that VandermondeInverse returns is the inverse modulo p of the   *)
(* matrix of the powers of the indices.                                    *)
(***************************************************************************)
\* Row i of the matrix that is inverted: the powers of basis[i] modulo p.
PowersOf(basis, p) ==
    LET RECURSIVE elt(_, _)
        elt(a, i) == IF i = 0 THEN 1 ELSE (elt(a, i - 1) * a) % p
    IN  [i \in 1..Len(basis) |-> [k \in 1..Len(basis) |-> elt(basis[i], k - 1)]]

IsInverseOf(inverse, basis, p) ==
    MatrixProduct(inverse, PowersOf(basis, p), p)
        = [i \in 1..Len(basis) |-> [k \in 1..Len(basis) |-> IF i = k THEN 1 ELSE 0]]

C39_VandermondeInverseFitsInt ==
    ret # <<>> =>
        /\ ~ Overflows(args.basis)
        /\ ret[1].kind = "value"
        /\ IsInverseOf(ret[1].v, args.basis, IdaP)


(***************************************************************************)
(* C40: a thread that reads min_key_, the predecessor, the successor list  *)
(* or the size of the database holds the lock of the structure in shared   *)
(* mode, and a thread that changes one of them holds it in exclusive mode: *)
(* no access is made without the lock.                                     *)
(***************************************************************************)
InMethod(c) == calls[c].pc = "access"

C40_AccessesHoldTheLock ==
    \A c \in Clients :
        InMethod(c) =>
            /\ calls[c].call.access = "read" => calls[c].call.lock = "shared"
            /\ calls[c].call.access = "write" => calls[c].call.lock = "exclusive"

\* No thread writes a structure while another thread is in a method of it.
C40_NoConcurrentWrite ==
    \A c, d \in Clients :
        (c # d /\ InMethod(c) /\ InMethod(d)
            /\ calls[c].call.structure = calls[d].call.structure)
        => (calls[c].call.access = "read" /\ calls[d].call.access = "read")


====
